---- MODULE Spec2Model ----
(***************************************************************************)
(* Model of engine/src/Mesh.cpp (class Mesh): the triangle mesh, the       *)
(* binned-SAH BVH builder (buildBVH / updateNodeBounds / evaluateSAH /     *)
(* subdivideNode), the edge-collapse simplifier (decimate), the normal     *)
(* synthesis (computeNormals) and the physics data (computePhysicsData).   *)
(*                                                                         *)
(* Numbers.  Coordinates are integers; every float operation the code      *)
(* applies to them in the modelled runs (sums of three, halving, products  *)
(* of extents, comparison) is exact on the small integers used, so the     *)
(* integer result is the float result.  Two quantities are kept as         *)
(* numerators: a triangle's centroid is kept as the sum of its three       *)
(* coordinates (3 * centroid) and a SAH candidate position as              *)
(* 8 * min + extent * b (8 * pos); "centroid < pos" is 8*sum < 3*pos8.     *)
(* Values the code obtains with sqrt / acos (normals) are kept as the      *)
(* term that produces them, encoded as a sequence of integers.             *)
(*                                                                         *)
(* Indices are 0-based as in the code; Get(s, i) is s[i] of the code.      *)
(***************************************************************************)
EXTENDS Integers, Sequences, FiniteSets, TLC

\* ------------------------------------------------------------------ bounds

\* longest triangle list of the BVH input family
MaxTris == 6
\* longest triangle list of the decimation input family
MaxDecTris == 5
\* most copies of the last triangle in a fan of the decimation input family
MaxFan == 5
\* calls of decimate followed in one run of the decimation specification
MaxDecimateCalls == 1
\* the mesh's lifetime: calls made, vertices and triangles added one by one,
\* materials
MaxOps == 4
MaxVerts == 3
MaxAddTris == 2
MaxMaterials == 1
\* the largest index asked of GetMaterial
MaxMaterialIndex == 4
\* faces of an OBJ file, and loads made of files one after the other
MaxFaces == 3
MaxLoads == 2
\* triangles of a mesh whose normals are computed as numbers
MaxNormTris == 3
\* the point triangles of a mesh in the collapse family
MaxPointTris == 5
\* bits kept of a size_t hash value
HashBits == 8

\* ------------------------------------------------------- program constants

\* 1.0f as a component of a normal: normals are kept in ten-thousandths
NormalOne == 10000
\* "constexpr float epsilon = 1e-6f" as a squared length in those units
Epsilon == 100
\* 1.0f as a texture coordinate: texture coordinates are kept in hundredths
TexOne == 100

\* what m_materials[index] yields past the end of m_materials
GarbageMaterial == -1

\* 1e30f: initial min bound / negated initial max bound of a node, and the
\* cost evaluateSAH gives a candidate with an empty side.  The model uses a
\* number above every coordinate and every cost it can form.
Sentinel == 1000000000
\* leaf threshold of subdivideNode: "if (node.triCount <= 4) return"
LeafMax == 4
\* NUM_BINS of subdivideNode
NUM_BINS == 8
\* decimate keeps "at least 4 triangles": max(targetTriCount, 4)
MinTarget == 4

\* ----------------------------------------------------------------- helpers

Get(s, i) == s[i + 1]
Put(s, i, v) == [s EXCEPT ![i + 1] = v]
Range(s) == {s[k] : k \in 1..Len(s)}
MinOf(S) == CHOOSE x \in S : \A y \in S : x <= y
MaxOf(S) == CHOOSE x \in S : \A y \in S : x >= y
SeqsUpTo(S, n) == UNION {[1..k -> S] : k \in 0..n}

VARIABLES
    \* the members of Mesh
    m_vertices, m_triangles, m_materials,
    m_bvhNodes, m_bvhTriIndices,
    m_boundingBox, m_faceNormals, m_hasPhysicsData,
    \* where the running operation stands: "idle" (none), "bvh" (in buildBVH),
    \* "dec" (in decimate's collapse loop), "undefined" (after a fault)
    pc,
    \* an access past the end of m_vertices has happened
    ub,
    \* what a read past the end of m_vertices yields
    garbage,
    \* the pending calls of subdivideNode, innermost first
    stack,
    \* the locals of decimate
    targetTriCount, parent, vertexTriangles, triangleValid, validTriCount,
    positions, normals, edgeQueue,
    \* history: the last call of decimate (its ratio and the mesh it was given),
    \* the entries re-inserted since the last collapse, the collapses so far
    call, reinserted, collapses,
    \* history: the calls made on the mesh so far
    ops,
    \* the last call made: its name, its argument, how it ended and what it
    \* returned
    ret

meshVars == <<m_vertices, m_triangles, m_materials>>
bvhVars == <<m_bvhNodes, m_bvhTriIndices>>
physVars == <<m_boundingBox, m_faceNormals, m_hasPhysicsData>>
decVars == <<targetTriCount, parent, vertexTriangles, triangleValid, validTriCount,
             positions, normals, edgeQueue>>
histVars == <<call, reinserted, collapses>>
callVars == <<ops, ret>>
vars == <<meshVars, bvhVars, physVars, pc, ub, garbage, stack, decVars, histVars, callVars>>

\* what a call leaves in ret
Returned(name, arg, status, value) ==
    [op |-> name, arg |-> arg, status |-> status, value |-> value]
NoReturn == Returned("none", 0, "none", 0)
\* a call of a void operation
Void(name) == Returned(name, 0, "returned", 0)

\* a call of a public operation is counted
Count == ops < MaxOps /\ ops' = ops + 1
Counted(name) == Count /\ ret' = Void(name)

\* ----------------------------------------------------------------- vertices

\* Vector(0, nx, ny, nz) given as numbers
Vec(x, y, z) == <<0, x, y, z>>
\* a vertex: position, normal, texCoord (uv: one number names the pair)
Vertex(p, n, t) == [position |-> p, normal |-> n, texCoord |-> t]
Triangle(a, b, c, m) == [indices |-> <<a, b, c>>, materialIndex |-> m]

\* m_vertices[i]; an index past the end reads whatever lies there
VertexAt(i) == IF i < Len(m_vertices) THEN Get(m_vertices, i) ELSE garbage
PosAt(i) == VertexAt(i).position
InRange(tri) == \A j \in 1..3 : tri.indices[j] < Len(m_vertices)
AllInRange == \A k \in 1..Len(m_triangles) : InRange(m_triangles[k])

\* ---------------------------------------------------------------------- BVH

BVHNode(mn, mx, lf, tc) ==
    [minBounds |-> mn, maxBounds |-> mx, leftFirst |-> lf, triCount |-> tc]

\* the positions of the three corners of the triangles tidx[first .. first+count)
CornerPositions(tidx, first, count) ==
    {PosAt(Get(m_triangles, Get(tidx, first + i)).indices[j]) :
        i \in 0..(count - 1), j \in 1..3}

BoxMin(P) == [a \in 1..3 |-> MinOf({p[a] : p \in P} \cup {Sentinel})]
BoxMax(P) == [a \in 1..3 |-> MaxOf({p[a] : p \in P} \cup {-Sentinel})]

\* updateNodeBounds with the scan starting at the slice's second triangle
updateNodeBoundsSkipFirst(nodes, tidx, nodeIdx) ==
    LET node == Get(nodes, nodeIdx)
        P == CornerPositions(tidx, node.leftFirst + 1, node.triCount - 1)
    IN Put(nodes, nodeIdx,
           [node EXCEPT !.minBounds = BoxMin(P), !.maxBounds = BoxMax(P)])

updateNodeBounds(nodes, tidx, nodeIdx) ==
    LET node == Get(nodes, nodeIdx)
        P == CornerPositions(tidx, node.leftFirst, node.triCount)
    IN Put(nodes, nodeIdx,
           [node EXCEPT !.minBounds = BoxMin(P), !.maxBounds = BoxMax(P)])

\* 3 * m_triCentroids[triIdx * 3 + axis]
Centroid3(triIdx, axis) ==
    LET tri == Get(m_triangles, triIdx)
    IN PosAt(tri.indices[1])[axis] + PosAt(tri.indices[2])[axis]
       + PosAt(tri.indices[3])[axis]

\* the side test with "centroid <= pos": a centroid on the plane counts as left
CentroidLessOrOn(triIdx, axis, pos8) == 8 * Centroid3(triIdx, axis) <= 3 * pos8

\* centroid < pos, with pos8 = 8 * pos
CentroidLess(triIdx, axis, pos8) == 8 * Centroid3(triIdx, axis) < 3 * pos8

HalfArea(mn, mx) ==
    LET e == [a \in 1..3 |-> mx[a] - mn[a]]
    IN e[1] * e[2] + e[2] * e[3] + e[3] * e[1]

\* the slots of a node's slice whose triangle goes left / right
LeftSlots(tidx, first, count, axis, pos8) ==
    {i \in 0..(count - 1) : CentroidLess(Get(tidx, first + i), axis, pos8)}

evaluateSAH(tidx, node, axis, pos8) ==
    CHOOSE cost \in
      { LET R == (0..(node.triCount - 1)) \ L
            PL == {PosAt(Get(m_triangles, Get(tidx, node.leftFirst + i)).indices[j]) :
                      i \in L, j \in 1..3}
            PR == {PosAt(Get(m_triangles, Get(tidx, node.leftFirst + i)).indices[j]) :
                      i \in R, j \in 1..3}
        IN IF L = {} \/ R = {} THEN Sentinel
           ELSE CHOOSE sum \in
                  { Cardinality(L) * HalfArea(leftMin, leftMax)
                    + Cardinality(R) * HalfArea(rightMin, rightMax) :
                      leftMin \in {BoxMin(PL)}, leftMax \in {BoxMax(PL)},
                      rightMin \in {BoxMin(PR)}, rightMax \in {BoxMax(PR)} } : TRUE :
          L \in {LeftSlots(tidx, node.leftFirst, node.triCount, axis, pos8)} } : TRUE

Extent(node) == [a \in 1..3 |-> node.maxBounds[a] - node.minBounds[a]]

\* 8 * (minBounds[axis] + extent[axis] * b / NUM_BINS)
CandidatePos8(node, axis, b) ==
    NUM_BINS * node.minBounds[axis] + Extent(node)[axis] * b

\* the candidates in the order the two loops visit them: axis 0..2 (1..3 here),
\* b = 1..NUM_BINS-1, an axis of extent < 1e-6 skipped
Candidates(node) ==
    LET all == [k \in 1..(3 * (NUM_BINS - 1)) |->
                   <<((k - 1) \div (NUM_BINS - 1)) + 1,
                     ((k - 1) % (NUM_BINS - 1)) + 1>>]
    IN SelectSeq(all, LAMBDA c : Extent(node)[c[1]] >= 1)

\* the scan with "cost <= bestCost": on equal costs the later candidate wins
RECURSIVE BestSplitFromLastWins(_, _, _, _, _)
BestSplitFromLastWins(tidx, node, cands, k, best) ==
    IF k > Len(cands) THEN best
    ELSE CHOOSE r \in
           { BestSplitFromLastWins(tidx, node, cands, k + 1, next) :
               next \in
                 { CHOOSE new \in
                     { IF cost <= old.cost
                       THEN [cost |-> cost, axis |-> axis, pos8 |-> pos8]
                       ELSE old :
                         cost \in {evaluateSAH(tidx, node, axis, pos8)} } : TRUE :
                     axis \in {cands[k][1]},
                     pos8 \in {CandidatePos8(node, cands[k][1], cands[k][2])},
                     old \in {best} } } : TRUE

RECURSIVE BestSplitFrom(_, _, _, _, _)
BestSplitFrom(tidx, node, cands, k, best) ==
    IF k > Len(cands) THEN best
    ELSE CHOOSE r \in
           { BestSplitFrom(tidx, node, cands, k + 1, next) :
               next \in
                 { CHOOSE new \in
                     { IF cost < old.cost
                       THEN [cost |-> cost, axis |-> axis, pos8 |-> pos8]
                       ELSE old :
                         cost \in {evaluateSAH(tidx, node, axis, pos8)} } : TRUE :
                     axis \in {cands[k][1]},
                     pos8 \in {CandidatePos8(node, cands[k][1], cands[k][2])},
                     old \in {best} } } : TRUE

\* bestAxis = 0, bestPos = 0, bestCost = 1e30 before the loops
BestSplit(tidx, node) ==
    CHOOSE best \in
      { BestSplitFrom(tidx, node, cands, 1,
                      [cost |-> Sentinel, axis |-> 1, pos8 |-> 0]) :
          cands \in {Candidates(node)} } : TRUE

\* a swap that loses the element at i
SwapOverwrite(s, i, j) == [s EXCEPT ![i + 1] = s[j + 1]]

Swap(s, i, j) == [s EXCEPT ![i + 1] = s[j + 1], ![j + 1] = s[i + 1]]

\* the loop with "centroid <= bestPos": a centroid on the plane goes left
RECURSIVE PartitionLoopOrOn(_, _, _, _, _)
PartitionLoopOrOn(tidx, i, j, axis, pos8) ==
    IF i > j THEN [tidx |-> tidx, i |-> i]
    ELSE IF 8 * Centroid3(Get(tidx, i), axis) <= 3 * pos8
         THEN PartitionLoopOrOn(tidx, i + 1, j, axis, pos8)
         ELSE CHOOSE r \in { PartitionLoopOrOn(swapped, i, j - 1, axis, pos8) :
                               swapped \in {Swap(tidx, i, j)} } : TRUE

\* the two-pointer loop "while (i <= j)"; yields the array and the final i
RECURSIVE PartitionLoop(_, _, _, _, _)
PartitionLoop(tidx, i, j, axis, pos8) ==
    IF i > j THEN [tidx |-> tidx, i |-> i]
    ELSE IF CentroidLess(Get(tidx, i), axis, pos8)
         THEN PartitionLoop(tidx, i + 1, j, axis, pos8)
         ELSE CHOOSE r \in { PartitionLoop(swapped, i, j - 1, axis, pos8) :
                               swapped \in {Swap(tidx, i, j)} } : TRUE

\* the children with the right one starting one slot late
ChildNodesGap(node, i) ==
    LET leftCount == i - node.leftFirst
    IN << BVHNode(<<Sentinel, Sentinel, Sentinel>>,
                  <<-Sentinel, -Sentinel, -Sentinel>>, node.leftFirst, leftCount),
          BVHNode(<<Sentinel, Sentinel, Sentinel>>,
                  <<-Sentinel, -Sentinel, -Sentinel>>, i + 1,
                  node.triCount - leftCount - 1) >>

\* the child records subdivideNode appends: left, then right
ChildNodes(node, i) ==
    LET leftCount == i - node.leftFirst
    IN << BVHNode(<<Sentinel, Sentinel, Sentinel>>,
                  <<-Sentinel, -Sentinel, -Sentinel>>, node.leftFirst, leftCount),
          BVHNode(<<Sentinel, Sentinel, Sentinel>>,
                  <<-Sentinel, -Sentinel, -Sentinel>>, i, node.triCount - leftCount) >>

\* the parent pointing at the node array's size after the two emplace_back
MakeInternalLate(node, leftChildIdx) ==
    [node EXCEPT !.leftFirst = leftChildIdx + 2, !.triCount = 0]

\* the parent after "node.leftFirst = leftChildIdx; node.triCount = 0"
MakeInternal(node, leftChildIdx) ==
    [node EXCEPT !.leftFirst = leftChildIdx, !.triCount = 0]

\* the test with "bestCost > noSplitCost": an equal cost still splits
NoImprovementStrict(bestCost, noSplitCost) == bestCost > noSplitCost

\* "if (bestCost >= noSplitCost) return"
NoImprovement(bestCost, noSplitCost) == bestCost >= noSplitCost

\* one call of subdivideNode(nodeIdx) up to its two recursive calls: the node
\* array, the permutation array and the calls it goes on to make
subdivideNode(nodes, tidx, nodeIdx) ==
    LET node == CHOOSE n \in {Get(nodes, nodeIdx)} : TRUE
        stay == [nodes |-> nodes, tidx |-> tidx, calls |-> <<>>]
    IN IF node.triCount <= LeafMax THEN stay
       ELSE
        LET e == Extent(node)
            parentArea == e[1] * e[2] + e[2] * e[3] + e[3] * e[1]
            noSplitCost == node.triCount * parentArea
        IN CHOOSE result \in
            { IF NoImprovement(best.cost, noSplitCost) THEN stay
              ELSE CHOOSE split \in
                { LET leftCount == part.i - node.leftFirst
                  IN IF leftCount = 0 \/ leftCount = node.triCount
                     THEN [stay EXCEPT !.tidx = part.tidx]
                     ELSE
                      LET leftChildIdx == Len(nodes)
                      IN CHOOSE r \in
                          { [nodes |-> updateNodeBounds(n2, part.tidx, leftChildIdx + 1),
                             tidx |-> part.tidx,
                             calls |-> <<leftChildIdx, leftChildIdx + 1>>] :
                              n2 \in { updateNodeBounds(n1, part.tidx, leftChildIdx) :
                                  n1 \in { Put(nodes, nodeIdx,
                                               MakeInternal(node, leftChildIdx))
                                           \o ChildNodes(node, part.i) } } } : TRUE :
                    part \in { PartitionLoop(tidx, node.leftFirst,
                                   node.leftFirst + node.triCount - 1,
                                   best.axis, best.pos8) } } : TRUE :
                best \in { BestSplit(tidx, node) } } : TRUE

\* the root node buildBVH creates: the whole range, bounds updated
RootNodes(tidx) ==
    updateNodeBounds(
        << BVHNode(<<Sentinel, Sentinel, Sentinel>>,
                   <<-Sentinel, -Sentinel, -Sentinel>>, 0, Len(m_triangles)) >>,
        tidx, 0)

Identity(n) == [k \in 1..n |-> k - 1]

\* buildBVH from the index array to the root's bounds; subdivideNode(0) is next
BuildBVHBody ==
    /\ m_bvhTriIndices' = Identity(Len(m_triangles))
    /\ m_bvhNodes' = RootNodes(Identity(Len(m_triangles)))
    /\ stack' = <<0>>
    /\ pc' = "bvh"

\* buildBVH on a mesh whose triangles all index existing vertices (or on none)
BuildBVH ==
    /\ pc = "idle"
    /\ m_triangles = <<>> \/ AllInRange
    /\ IF m_triangles = <<>>
       THEN UNCHANGED <<bvhVars, pc, stack>>
       ELSE BuildBVHBody
    /\ UNCHANGED <<meshVars, physVars, ub, garbage, decVars, histVars>>

\* buildBVH on a mesh with a triangle index >= m_vertices.size(): the centroid
\* loop reads m_vertices past its end.  The read faults, or yields what lies there.
BuildBVHOutOfRange ==
    /\ pc = "idle"
    /\ m_triangles # <<>> /\ ~AllInRange
    /\ ub' = TRUE
    /\ \/ pc' = "undefined" /\ UNCHANGED <<bvhVars, stack>>
       \/ BuildBVHBody
    /\ UNCHANGED <<meshVars, physVars, garbage, decVars, histVars>>

\* a node array that has room for the root only
ReservedForRoot(triCount) == 1

\* m_bvhNodes.reserve(triCount * 2): the nodes the array holds without moving
Reserved(triCount) == triCount * 2

\* one call of subdivideNode, the innermost pending one; buildBVH returns
\* (dropping the centroid cache) when none is pending.  subdivideNode holds a
\* reference to its node across the two emplace_back: if they grow the array
\* past what was reserved the array moves and the writes through the
\* reference go to freed storage, which faults or goes unnoticed.
SubdivideNode ==
    /\ pc = "bvh"
    /\ stack # <<>>
    /\ \E r \in {subdivideNode(m_bvhNodes, m_bvhTriIndices, Head(stack))} :
          /\ m_bvhNodes' = r.nodes
          /\ m_bvhTriIndices' = r.tidx
          /\ stack' = r.calls \o Tail(stack)
          /\ IF Len(r.nodes) > Reserved(Len(m_triangles))
             THEN /\ ub' = TRUE
                  /\ pc' \in {"undefined", IF stack' = <<>> THEN "idle" ELSE "bvh"}
             ELSE /\ ub' = ub
                  /\ pc' = IF stack' = <<>> THEN "idle" ELSE "bvh"
    /\ UNCHANGED <<meshVars, physVars, garbage, decVars, histVars, callVars>>

\* ------------------------------------------------------------ computeNormals

Sub(p, q) == <<p[1] - q[1], p[2] - q[2], p[3] - q[3]>>
Cross(a, b) ==
    <<a[2] * b[3] - a[3] * b[2], a[3] * b[1] - a[1] * b[3], a[1] * b[2] - a[2] * b[1]>>
Neg(a) == <<-a[1], -a[2], -a[3]>>

\* (nx, ny, nz) before normalisation: the negated cross product of e01 and e02
FaceNormalRaw(p0, p1, p2) == Neg(Cross(Sub(p1, p0), Sub(p2, p0)))

\* "faceLen < 0.0001": on integer coordinates the length is 0 or at least 1
FaceDegenerate(p0, p1, p2) == FaceNormalRaw(p0, p1, p2) = <<0, 0, 0>>

\* what triangle (p0, p1, p2) adds to the normal of its corner c (0..2):
\* unit face normal times the angle at c, kept as the data that determine it
Contribution(p0, p1, p2, c) == p0 \o p1 \o p2 \o <<c>>

\* the position read from verts[i]; an index past the end reads what lies there
PositionIn(verts, i) == IF i < Len(verts) THEN Get(verts, i).position ELSE garbage.position

\* the corners (triangle k, corner c) that add to vertex vi, in the order of
\* the accumulation loop
RECURSIVE ContributionsFrom(_, _, _, _)
ContributionsFrom(verts, tris, vi, k) ==
    IF k > Len(tris) THEN <<>>
    ELSE LET ix == tris[k].indices
             p0 == PositionIn(verts, ix[1])
             p1 == PositionIn(verts, ix[2])
             p2 == PositionIn(verts, ix[3])
             here == IF FaceDegenerate(p0, p1, p2) THEN <<>>
                     ELSE SelectSeq(<<0, 1, 2>>, LAMBDA c : ix[c + 1] = vi)
         IN [n \in 1..Len(here) |-> <<p0, p1, p2, here[n]>>]
            \o ContributionsFrom(verts, tris, vi, k + 1)

\* the accumulated normal has length <= 0.0001: nothing was added, or what was
\* added cancels (every oriented triangle at the corner is matched by the same
\* triangle with the opposite orientation, whose term is the exact negative)
Vanishes(cs) ==
    \A n \in 1..Len(cs) :
        LET same == {m \in 1..Len(cs) :
                        /\ {cs[m][1], cs[m][2], cs[m][3]} = {cs[n][1], cs[n][2], cs[n][3]}
                        /\ cs[m][cs[m][4] + 1] = cs[n][cs[n][4] + 1]}
            plus == {m \in same : FaceNormalRaw(cs[m][1], cs[m][2], cs[m][3])
                                  = FaceNormalRaw(cs[n][1], cs[n][2], cs[n][3])}
        IN 2 * Cardinality(plus) = Cardinality(same)

RECURSIVE Flatten(_)
Flatten(list) ==
    IF list = <<>> THEN <<>>
    ELSE CHOOSE flat \in
        { Contribution(cs[1][1], cs[1][2], cs[1][3], cs[1][4]) \o Flatten(Tail(cs))
          : cs \in {list} } : TRUE

\* the default up normal Vector(0, 0, 1, 0)
UpNormal == Vec(0, NormalOne, 0)

\* normalisation without the default: a short sum is left as the zero normal
SynthNormalNoFallback(list) ==
    CHOOSE nrm \in
        { IF Vanishes(cs) THEN Vec(0, 0, 0) ELSE <<2>> \o Flatten(cs) : cs \in {list} } : TRUE

\* a synthesized unit normal: 2, then the terms that were summed and normalised
SynthNormal(list) ==
    CHOOSE nrm \in
        { IF Vanishes(cs) THEN UpNormal ELSE <<2>> \o Flatten(cs) : cs \in {list} } : TRUE

\* normal synthesis that fills in only the normals that are zero
computeNormalsWhereMissing(verts, tris) ==
    [i \in 1..Len(verts) |->
        IF verts[i].normal = Vec(0, 0, 0)
        THEN [verts[i] EXCEPT !.normal = SynthNormal(ContributionsFrom(verts, tris, i - 1, 1))]
        ELSE verts[i]]

\* computeNormals on in-range triangles: every normal is overwritten
computeNormals(verts, tris) ==
    [i \in 1..Len(verts) |->
        [verts[i] EXCEPT !.normal = SynthNormal(ContributionsFrom(verts, tris, i - 1, 1))]]

\* ------------------------------------------------------------------ decimate

Max2(a, b) == IF a >= b THEN a ELSE b
Min2(a, b) == IF a <= b THEN a ELSE b

\* ratios are given in hundredths; max(0.01f, min(1.0f, targetRatio))
ClampRatio(r) == Max2(1, Min2(100, r))

\* max(size_t(m_triangles.size() * targetRatio), 4)
TargetTriCount(n, r) == Max2((n * ClampRatio(r)) \div 100, MinTarget)

\* the early return with "targetRatio > 1.0f"
DecimateReturnsAbove(r) == m_triangles = <<>> \/ r > 100

\* "if (m_triangles.empty() || targetRatio >= 1.0f) return"
DecimateReturnsAtOnce(r) == m_triangles = <<>> \/ r >= 100

RECURSIVE findRoot(_, _)
findRoot(par, v) == IF Get(par, v) = v THEN v ELSE findRoot(par, Get(par, v))

\* parent after findRoot(v): every vertex on the path now points at the root
RECURSIVE Compress(_, _)
Compress(par, v) ==
    IF Get(par, v) = v THEN par
    ELSE Put(Compress(par, Get(par, v)), v, findRoot(par, v))

calcEdgeCost(pos, v1, v2) ==
    LET d == Sub(Get(pos, v1), Get(pos, v2))
    IN d[1] * d[1] + d[2] * d[2] + d[3] * d[3]

\* a key made of the smaller endpoint alone
makeEdgeKeyOfLower(v1, v2) == <<Min2(v1, v2), Min2(v1, v2)>>

\* the two endpoints packed smaller first
makeEdgeKey(v1, v2) == <<Min2(v1, v2), Max2(v1, v2)>>

\* std::greater on (cost, v1, v2): the queue's top is the least tuple
EntryLess(a, b) ==
    \/ a[1] < b[1]
    \/ a[1] = b[1] /\ a[2] < b[2]
    \/ a[1] = b[1] /\ a[2] = b[2] /\ a[3] < b[3]

\* edgeQueue.push: the queue is kept as the sorted sequence of its entries
\* (queue and entry are bound as values, so each is evaluated once)
QueuePush(queue, entry) ==
    CHOOSE pushed \in
        { LET k == Cardinality({i \in 1..Len(q) : EntryLess(q[i], e)})
          IN SubSeq(q, 1, k) \o <<e>> \o SubSeq(q, k + 1, Len(q))
          : q \in {queue}, e \in {entry} } : TRUE

\* the e-th edge (0..2) of a triangle: indices[e], indices[(e + 1) % 3]
EdgeOf(tri, e) == <<tri.indices[e + 1], tri.indices[((e + 1) % 3) + 1]>>

\* the initial queue: each undirected edge once, at its first occurrence
RECURSIVE InitialQueueFrom(_, _, _, _, _)
InitialQueueFrom(tris, pos, k, added, q) ==
    IF k >= 3 * Len(tris) THEN q
    ELSE LET ed == EdgeOf(Get(tris, k \div 3), k % 3)
             key == makeEdgeKey(ed[1], ed[2])
         IN IF key \in added
            THEN InitialQueueFrom(tris, pos, k + 1, added, q)
            ELSE InitialQueueFrom(tris, pos, k + 1, added \cup {key},
                     QueuePush(q, <<calcEdgeCost(pos, ed[1], ed[2]), ed[1], ed[2]>>))

\* vertexTriangles: per vertex the triangles that name it, one entry per corner
Adjacency(verts, tris) ==
    [v \in 1..Len(verts) |->
        LET corners == [k \in 1..(3 * Len(tris)) |-> k - 1]
            mine == SelectSeq(corners,
                        LAMBDA k : Get(tris, k \div 3).indices[(k % 3) + 1] = v - 1)
        IN [n \in 1..Len(mine) |-> mine[n] \div 3]]

NoCall ==
    [n |-> 0, ratio |-> -1, vertices |-> <<>>, triangles |-> <<>>, materials |-> <<>>]

\* the call's number, its ratio and the mesh it is given
ThisCall(r) ==
    [n |-> call.n + 1, ratio |-> r, vertices |-> m_vertices,
     triangles |-> m_triangles, materials |-> m_materials]

\* decimate(targetRatio) up to the first test of the collapse loop
Decimate(r) ==
    /\ pc = "idle"
    /\ DecimateReturnsAtOnce(r) \/ AllInRange
    /\ call' = ThisCall(r)
    /\ IF DecimateReturnsAtOnce(r)
       THEN UNCHANGED <<pc, decVars, reinserted, collapses>>
       ELSE /\ pc' = "dec"
            /\ targetTriCount' = TargetTriCount(Len(m_triangles), r)
            /\ parent' = Identity(Len(m_vertices))
            /\ vertexTriangles' = Adjacency(m_vertices, m_triangles)
            /\ triangleValid' = [k \in 1..Len(m_triangles) |-> TRUE]
            /\ validTriCount' = Len(m_triangles)
            /\ positions' = [i \in 1..Len(m_vertices) |-> m_vertices[i].position]
            /\ normals' = [i \in 1..Len(m_vertices) |-> m_vertices[i].normal]
            /\ edgeQueue' = InitialQueueFrom(m_triangles, positions', 0, {}, <<>>)
            /\ reinserted' = {}
            /\ collapses' = 0
    /\ UNCHANGED <<meshVars, bvhVars, physVars, ub, garbage, stack>>

\* decimate on a mesh with a triangle index >= m_vertices.size(): building the
\* adjacency writes vertexTriangles past its end; the run is not followed further
DecimateOutOfRange(r) ==
    /\ pc = "idle"
    /\ ~DecimateReturnsAtOnce(r) /\ ~AllInRange
    /\ call' = ThisCall(r)
    /\ ub' = TRUE
    /\ pc' = "undefined"
    /\ UNCHANGED <<meshVars, bvhVars, physVars, garbage, stack, decVars,
                   reinserted, collapses>>

\* "while (validTriCount > targetTriCount && !edgeQueue.empty())"
LoopContinues == validTriCount > targetTriCount /\ edgeQueue # <<>>

\* the popped entry, its roots, and parent after the two findRoot calls
Popped ==
    LET top == Head(edgeQueue)
        par1 == Compress(parent, top[2])
        par2 == Compress(par1, top[3])
        r1 == findRoot(parent, top[2])
        r2 == findRoot(parent, top[3])
    IN [cost |-> top[1], v1 |-> Min2(r1, r2), v2 |-> Max2(r1, r2), parent |-> par2]

\* the test with the factor 4: "newCost > cost * 4.0f"
CostGrewFourfold(newCost, cost) == newCost > 4 * cost

\* "newCost > cost * 2.25f"
CostGrew(newCost, cost) == 4 * newCost > 9 * cost

\* an iteration that pops an entry whose endpoints already share a root
DecimateSkip ==
    /\ pc = "dec" /\ LoopContinues
    /\ Popped.v1 = Popped.v2
    /\ parent' = Popped.parent
    /\ edgeQueue' = Tail(edgeQueue)
    /\ UNCHANGED <<meshVars, bvhVars, physVars, pc, ub, garbage, stack,
                   targetTriCount, vertexTriangles, triangleValid, validTriCount,
                   positions, normals, histVars, callVars>>

\* the lazy update pushing the entry back with the cost it was popped with
RefreshedStale(cost, newCost, v1, v2) == <<cost, v1, v2>>

\* the entry pushed back by the lazy update: "edgeQueue.push({newCost, v1, v2})"
Refreshed(cost, newCost, v1, v2) == <<newCost, v1, v2>>

\* an iteration that pops an entry whose cost has grown and pushes it back
DecimateReinsert ==
    /\ pc = "dec" /\ LoopContinues
    /\ Popped.v1 # Popped.v2
    /\ LET newCost == calcEdgeCost(positions, Popped.v1, Popped.v2)
           entry == Refreshed(Popped.cost, newCost, Popped.v1, Popped.v2)
       IN /\ CostGrew(newCost, Popped.cost)
          /\ edgeQueue' = QueuePush(Tail(edgeQueue), entry)
          /\ reinserted' = reinserted \cup {entry}
    /\ parent' = Popped.parent
    /\ UNCHANGED <<meshVars, bvhVars, physVars, pc, ub, garbage, stack,
                   targetTriCount, vertexTriangles, triangleValid, validTriCount,
                   positions, normals, call, collapses, callVars>>

\* the surviving root left where it was
MidpointKeepsFirst(a, b) == a

\* (a + b) * 0.5f on each coordinate
Midpoint(a, b) == [i \in 1..3 |-> (a[i] + b[i]) \div 2]

\* the running normal of a merged vertex: the normalised sum of the two, kept
\* as the term 1, a, b
MergedNormal(a, b) == <<1>> \o a \o b

\* the triangles of a list that are still valid, in order
ValidOf(list, valid) == SelectSeq(list, LAMBDA ti : Get(valid, ti))

\* "tri.indices[i] = findRoot(tri.indices[i])" for the three corners
Remap(tri, par) ==
    [tri EXCEPT !.indices = <<findRoot(par, tri.indices[1]),
                              findRoot(par, tri.indices[2]),
                              findRoot(par, tri.indices[3])>>]

Degenerate(tri) ==
    \/ tri.indices[1] = tri.indices[2]
    \/ tri.indices[2] = tri.indices[3]
    \/ tri.indices[3] = tri.indices[1]

\* the edges of tri that touch v1, pushed in the order e = 0, 1, 2
RECURSIVE PushEdges(_, _, _, _, _)
PushEdges(q, tri, pos, v1, e) ==
    IF e > 2 THEN q
    ELSE LET ed == EdgeOf(tri, e)
         IN PushEdges(IF ed[1] = v1 \/ ed[2] = v1
                      THEN QueuePush(q, <<calcEdgeCost(pos, ed[1], ed[2]), ed[1], ed[2]>>)
                      ELSE q,
                      tri, pos, v1, e + 1)

\* the loop taking every listed triangle as still valid
FlaggedNever(valid, ti) == FALSE

\* "if (!triangleValid[ti]) continue": the triangle was flagged earlier in
\* this loop (it is listed once per corner at v1 or v2)
Flagged(valid, ti) == ~Get(valid, ti)

\* the loop over affectedTriangles, from its n-th element on
RECURSIVE UpdateAffected(_, _, _, _, _)
UpdateAffected(affected, n, state, pos, v1) ==
    IF n > Len(affected) THEN state
    ELSE CHOOSE done \in
        { LET ti == affected[n]
          IN IF Flagged(acc.valid, ti)
             THEN UpdateAffected(affected, n + 1, acc, pos, v1)
             ELSE LET par == Compress(Compress(Compress(acc.parent,
                                 Get(acc.tris, ti).indices[1]),
                                 Get(acc.tris, ti).indices[2]),
                                 Get(acc.tris, ti).indices[3])
                      tri == Remap(Get(acc.tris, ti), acc.parent)
                      tris == Put(acc.tris, ti, tri)
                  IN UpdateAffected(affected, n + 1,
                         IF Degenerate(tri)
                         THEN [acc EXCEPT !.tris = tris, !.parent = par,
                                          !.valid = Put(acc.valid, ti, FALSE),
                                          !.count = acc.count - 1]
                         ELSE [acc EXCEPT !.tris = tris, !.parent = par,
                                          !.queue = PushEdges(acc.queue, tri, pos, v1, 0)],
                         pos, v1)
          : acc \in {state} } : TRUE

\* the union the other way round: "parent[v1] = v2"
UnionUpward(par, v1, v2) == Put(par, v1, v2)

\* "parent[v2] = v1"
Union(par, v1, v2) == Put(par, v2, v1)

\* an iteration that collapses the popped edge: v2 is merged into v1
DecimateCollapse ==
    /\ pc = "dec" /\ LoopContinues
    /\ Popped.v1 # Popped.v2
    /\ ~CostGrew(calcEdgeCost(positions, Popped.v1, Popped.v2), Popped.cost)
    /\ \E top \in {Popped} :
       LET v1 == top.v1
           v2 == top.v2
           pos == Put(positions, v1, Midpoint(Get(positions, v1), Get(positions, v2)))
           affected == ValidOf(Get(vertexTriangles, v1), triangleValid)
                       \o ValidOf(Get(vertexTriangles, v2), triangleValid)
       IN \E acc \in {UpdateAffected(affected, 1,
                          [tris |-> m_triangles, valid |-> triangleValid,
                           count |-> validTriCount, parent |-> Union(top.parent, v1, v2),
                           queue |-> Tail(edgeQueue)],
                          pos, v1)} :
          /\ positions' = pos
          /\ normals' = Put(normals, v1, MergedNormal(Get(normals, v1), Get(normals, v2)))
          /\ vertexTriangles' =
                Put(Put(vertexTriangles, v1,
                        Get(vertexTriangles, v1) \o Get(vertexTriangles, v2)),
                    v2, <<>>)
          /\ m_triangles' = acc.tris
          /\ triangleValid' = acc.valid
          /\ validTriCount' = acc.count
          /\ parent' = acc.parent
          /\ edgeQueue' = acc.queue
    /\ reinserted' = {}
    /\ collapses' = collapses + 1
    /\ UNCHANGED <<m_vertices, m_materials, bvhVars, physVars, pc, ub, garbage,
                   stack, targetTriCount, call, callVars>>

\* the rebuild storing the root's old index in the triangle
NewIndexForgotten(order, oldIdx) == oldIdx

\* the new index of root oldIdx: its place in the order of first use
NewIndex(order, oldIdx) == (CHOOSE n \in 1..Len(order) : order[n] = oldIdx) - 1

\* the rebuild loop from corner k = 3 * ti + i on: order lists the roots in the
\* order usedVertices met them, out the triangles kept so far
RECURSIVE Compact(_, _, _, _, _)
Compact(tris, valid, par, k, state) ==
    IF k >= 3 * Len(tris) THEN state
    ELSE CHOOSE done \in
        { LET ti == k \div 3
          IN IF ~Get(valid, ti) THEN Compact(tris, valid, par, k + 3, acc)
             ELSE LET oldIdx == findRoot(par, Get(tris, ti).indices[(k % 3) + 1])
                      order == IF oldIdx \in Range(acc.order) THEN acc.order
                               ELSE Append(acc.order, oldIdx)
                      cur == Append(acc.cur, NewIndex(order, oldIdx))
                  IN IF k % 3 < 2
                     THEN Compact(tris, valid, par, k + 1,
                                  [acc EXCEPT !.order = order, !.cur = cur])
                     ELSE Compact(tris, valid, par, k + 1,
                             [order |-> order, cur |-> <<>>,
                              out |-> IF cur[1] # cur[2] /\ cur[2] # cur[3] /\ cur[3] # cur[1]
                                      THEN Append(acc.out,
                                             [indices |-> cur,
                                              materialIndex |-> Get(tris, ti).materialIndex])
                                      ELSE acc.out])
          : acc \in {state} } : TRUE

\* the new vertices built with the positions the vertices came in with
NewVerticesAsGiven(order) ==
    [n \in 1..Len(order) |->
        Vertex(Get(m_vertices, order[n]).position, Get(normals, order[n]),
               Get(m_vertices, order[n]).texCoord)]

\* newVertices: per root met, its position and running normal and the
\* texCoord of the root's vertex
NewVertices(order) ==
    [n \in 1..Len(order) |->
        Vertex(Get(positions, order[n]), Get(normals, order[n]),
               Get(m_vertices, order[n]).texCoord)]

\* the end of decimate: the mesh is rebuilt from the valid triangles and the
\* normals are recomputed
DecimateFinish ==
    /\ pc = "dec" /\ ~LoopContinues
    /\ \E c \in {Compact(m_triangles, triangleValid, parent, 0,
                          [order |-> <<>>, cur |-> <<>>, out |-> <<>>])} :
       \E newVertices \in {NewVertices(c.order)} :
          /\ m_triangles' = c.out
          /\ m_vertices' = computeNormals(newVertices, c.out)
    /\ pc' = "idle"
    /\ targetTriCount' = 0
    /\ parent' = <<>>
    /\ vertexTriangles' = <<>>
    /\ triangleValid' = <<>>
    /\ validTriCount' = 0
    /\ positions' = <<>>
    /\ normals' = <<>>
    /\ edgeQueue' = <<>>
    /\ reinserted' = {}
    /\ UNCHANGED <<m_materials, bvhVars, physVars, ub, garbage, stack, call,
                   collapses, callVars>>

\* --------------------------------------------------- the other operations

AddVertex(vertex) ==
    /\ pc = "idle"
    /\ m_vertices' = Append(m_vertices, vertex)
    /\ UNCHANGED <<m_triangles, m_materials, bvhVars, physVars, pc, ub, garbage,
                   stack, decVars, histVars>>

AddTriangle(triangle) ==
    /\ pc = "idle"
    /\ m_triangles' = Append(m_triangles, triangle)
    /\ UNCHANGED <<m_vertices, m_materials, bvhVars, physVars, pc, ub, garbage,
                   stack, decVars, histVars>>

SetVertices(vertices) ==
    /\ pc = "idle"
    /\ m_vertices' = vertices
    /\ UNCHANGED <<m_triangles, m_materials, bvhVars, physVars, pc, ub, garbage,
                   stack, decVars, histVars>>

SetTriangles(triangles) ==
    /\ pc = "idle"
    /\ m_triangles' = triangles
    /\ UNCHANGED <<m_vertices, m_materials, bvhVars, physVars, pc, ub, garbage,
                   stack, decVars, histVars>>

AddMaterial(material) ==
    /\ pc = "idle"
    /\ m_materials' = Append(m_materials, material)
    /\ UNCHANGED <<m_vertices, m_triangles, bvhVars, physVars, pc, ub, garbage,
                   stack, decVars, histVars>>

\* HasMaterial(index): "index < m_materials.size()"
HasMaterial(index) == index < Len(m_materials)

\* the test of getMaterial with "index > m_materials.size()"
MaterialIndexPastEnd(index) == index > Len(m_materials)

\* "if (index >= m_materials.size())"
MaterialIndexOutOfRange(index) == index >= Len(m_materials)

\* m_materials[index]; an index past the end reads whatever lies there
MaterialAt(index) ==
    IF index < Len(m_materials) THEN Get(m_materials, index) ELSE GarbageMaterial

\* getMaterial(index): the material, or std::out_of_range thrown
GetMaterial(index) ==
    /\ pc = "idle"
    /\ ret' = IF MaterialIndexOutOfRange(index)
              THEN Returned("GetMaterial", index, "out_of_range", 0)
              ELSE Returned("GetMaterial", index, "returned", MaterialAt(index))
    /\ UNCHANGED <<meshVars, bvhVars, physVars, pc, ub, garbage, stack, decVars, histVars>>

\* clear(): vertices, triangles and materials; the BVH and the physics data stay
Clear ==
    /\ pc = "idle"
    /\ m_vertices' = <<>>
    /\ m_triangles' = <<>>
    /\ m_materials' = <<>>
    /\ UNCHANGED <<bvhVars, physVars, pc, ub, garbage, stack, decVars, histVars>>

\* a clearCPUData() that drops the BVH with the arrays it was built from
ClearCPUDataDropsBVH ==
    /\ pc = "idle"
    /\ m_vertices' = <<>>
    /\ m_triangles' = <<>>
    /\ m_bvhNodes' = <<>>
    /\ m_bvhTriIndices' = <<>>
    /\ UNCHANGED <<m_materials, physVars, pc, ub, garbage, stack, decVars, histVars>>

\* clearCPUData(): vertices and triangles; materials, BVH and physics data stay
ClearCPUData ==
    /\ pc = "idle"
    /\ m_vertices' = <<>>
    /\ m_triangles' = <<>>
    /\ UNCHANGED <<m_materials, bvhVars, physVars, pc, ub, garbage, stack,
                   decVars, histVars>>

\* computeNormals() on a mesh whose triangles all index existing vertices
ComputeNormals ==
    /\ pc = "idle"
    /\ AllInRange
    /\ m_vertices' = computeNormals(m_vertices, m_triangles)
    /\ UNCHANGED <<m_triangles, m_materials, bvhVars, physVars, pc, ub, garbage,
                   stack, decVars, histVars>>

\* computeNormals() on a mesh with a triangle index >= m_vertices.size(): the
\* accumulation reads m_vertices past its end and adds to the normal there;
\* the run is not followed further
ComputeNormalsOutOfRange ==
    /\ pc = "idle"
    /\ ~AllInRange
    /\ ub' = TRUE
    /\ pc' = "undefined"
    /\ UNCHANGED <<meshVars, bvhVars, physVars, garbage, stack, decVars, histVars>>

\* the bounding box of all vertices
BoundingBoxOf(verts) ==
    [min |-> [a \in 1..3 |-> MinOf({verts[i].position[a] : i \in 1..Len(verts)})],
     max |-> [a \in 1..3 |-> MaxOf({verts[i].position[a] : i \in 1..Len(verts)})]]

\* the default face normal (0, 1, 0)
UpFaceNormal == <<0, 0, 1, 0>>

\* a face normal: the cross product of e01 and e02 divided by its length (kept
\* as 1 and the cross product), or the default when the length is <= 1e-6
FaceNormalOf(tri) ==
    LET p0 == PosAt(tri.indices[1])
        p1 == PosAt(tri.indices[2])
        p2 == PosAt(tri.indices[3])
        c == Cross(Sub(p1, p0), Sub(p2, p0))
    IN [normal |-> IF c = <<0, 0, 0>> THEN UpFaceNormal ELSE <<1>> \o c,
        indices |-> tri.indices]

ComputePhysicsDataBody ==
    /\ m_boundingBox' = BoundingBoxOf(m_vertices)
    /\ m_faceNormals' = [k \in 1..Len(m_triangles) |-> FaceNormalOf(m_triangles[k])]
    /\ m_hasPhysicsData' = TRUE

\* computePhysicsData() on an empty mesh, or one whose triangles all index
\* existing vertices
ComputePhysicsData ==
    /\ pc = "idle"
    /\ IF m_vertices = <<>> \/ m_triangles = <<>>
       THEN m_hasPhysicsData' = FALSE /\ UNCHANGED <<m_boundingBox, m_faceNormals>>
       ELSE AllInRange /\ ComputePhysicsDataBody
    /\ UNCHANGED <<meshVars, bvhVars, pc, ub, garbage, stack, decVars, histVars>>

\* computePhysicsData() on a mesh with a triangle index >= m_vertices.size():
\* the face-normal loop reads m_vertices past its end.  The read faults, or
\* yields what lies there.
ComputePhysicsDataOutOfRange ==
    /\ pc = "idle"
    /\ m_vertices # <<>> /\ ~AllInRange
    /\ ub' = TRUE
    /\ \/ pc' = "undefined" /\ UNCHANGED physVars
       \/ ComputePhysicsDataBody /\ UNCHANGED pc
    /\ UNCHANGED <<meshVars, bvhVars, garbage, stack, decVars, histVars>>

\* ------------------------------------------------------ initial states

NoLocals ==
    /\ targetTriCount = 0
    /\ parent = <<>>
    /\ vertexTriangles = <<>>
    /\ triangleValid = <<>>
    /\ validTriCount = 0
    /\ positions = <<>>
    /\ normals = <<>>
    /\ edgeQueue = <<>>
    /\ call = NoCall
    /\ reinserted = {}
    /\ collapses = 0
    /\ ops = 0
    /\ ret = NoReturn

\* -------------------------------------------------------------- loadFromFile

\* tinyobj::index_t
index_t(v, n, t) == [vertex_index |-> v, normal_index |-> n, texcoord_index |-> t]

\* what tinyobj::LoadObj hands back: its result, attrib, shapes, objMaterials
Parsed(ok, attrib, shapes, objMaterials) ==
    [ok |-> ok, attrib |-> attrib, shapes |-> shapes, objMaterials |-> objMaterials,
     mtlBasePath |-> "models/"]

\* std::hash<float>: 0 for 0.0f, a mix of the value's bits otherwise
HashFloat(x) == IF x = 0 THEN 0 ELSE (x * 37 + 11) % (2 ^ HashBits)

\* a ^ b on size_t
RECURSIVE Xor(_, _)
Xor(a, b) ==
    IF a = 0 THEN b
    ELSE IF b = 0 THEN a
    ELSE ((a + b) % 2) + 2 * Xor(a \div 2, b \div 2)

\* h << k on size_t
ShiftLeft(h, k) == (h * (2 ^ k)) % (2 ^ HashBits)

\* a hashVertex that is the hash of the x coordinate only
hashVertexOfX(v) == HashFloat(v.position[1])

\* hashVertex: "h1 ^ (h2 << 1) ^ (h3 << 2)" of the position's coordinates
hashVertex(v) ==
    Xor(Xor(HashFloat(v.position[1]), ShiftLeft(HashFloat(v.position[2]), 1)),
        ShiftLeft(HashFloat(v.position[3]), 2))

\* the Vertex built for one face corner
CornerVertex(attrib, idx) ==
    Vertex(
        IF idx.vertex_index >= 0
        THEN << Get(attrib.vertices, 3 * idx.vertex_index + 0),
                Get(attrib.vertices, 3 * idx.vertex_index + 1),
                Get(attrib.vertices, 3 * idx.vertex_index + 2) >>
        ELSE <<0, 0, 0>>,
        IF /\ idx.normal_index >= 0
           /\ attrib.normals # <<>>
           /\ idx.normal_index * 3 + 2 < Len(attrib.normals)
        THEN Vec(Get(attrib.normals, 3 * idx.normal_index + 0),
                 Get(attrib.normals, 3 * idx.normal_index + 1),
                 Get(attrib.normals, 3 * idx.normal_index + 2))
        ELSE Vec(0, 0, 0),
        IF idx.texcoord_index >= 0
        THEN << Get(attrib.texcoords, 2 * idx.texcoord_index + 0),
                TexOne - Get(attrib.texcoords, 2 * idx.texcoord_index + 1) >>
        ELSE <<0, 0>>)

\* m_vertices, m_triangles and vertexMap while the shapes are read; indices
\* holds the corners of the triangle being built
Welded(vertices, triangles, vertexMap, indices) ==
    [vertices |-> vertices, triangles |-> triangles, vertexMap |-> vertexMap,
     indices |-> indices]

\* after clear(): no vertex, no triangle, an empty vertexMap
NothingWelded == Welded(<<>>, <<>>, <<>>, <<>>)

\* a vertexMap.find(hash) that finds nothing
FoundNever(vertexMap, hash) == {}

\* vertexMap.find(hash): vertexMap is kept as a list of (hash, vertexIndex)
Found(vertexMap, hash) == {n \in 1..Len(vertexMap) : vertexMap[n][1] = hash}

\* one corner: the vertex with its hash if vertexMap has it, a new vertex if not
AddCorner(w, vertex) ==
    LET hash == hashVertex(vertex)
        it == Found(w.vertexMap, hash)
    IN IF it # {}
       THEN [w EXCEPT !.indices = Append(@, w.vertexMap[CHOOSE n \in it : TRUE][2])]
       ELSE Welded(Append(w.vertices, vertex), w.triangles,
                   Append(w.vertexMap, <<hash, Len(w.vertices)>>),
                   Append(w.indices, Len(w.vertices)))

\* "(matId >= 0) ? static_cast<uint32_t>(matId) : 0"
MaterialIndexOf(matId) == IF matId >= 0 THEN matId ELSE 0

\* a triangle face: its three corners, then m_triangles.push_back(triangle)
AddFace(w, attrib, mesh, f, indexOffset) ==
    CHOOSE r \in
        { Welded(c2.vertices,
                 Append(c2.triangles,
                        Triangle(c2.indices[1], c2.indices[2], c2.indices[3],
                                 MaterialIndexOf(Get(mesh.material_ids, f)))),
                 c2.vertexMap, <<>>)
          : c2 \in
            { AddCorner(c1, CornerVertex(attrib, Get(mesh.indices, indexOffset + 2)))
              : c1 \in
                { AddCorner(c0, CornerVertex(attrib, Get(mesh.indices, indexOffset + 1)))
                  : c0 \in
                    { AddCorner(w, CornerVertex(attrib, Get(mesh.indices, indexOffset + 0))) }
                } } } : TRUE

\* a skipped face that leaves the cursor where it is
SkippedStays(indexOffset, fv) == indexOffset

\* "indexOffset += fv" for a face that is not a triangle
Skipped(indexOffset, fv) == indexOffset + fv

\* the faces f.. of one shape, indexOffset being the cursor into mesh.indices
RECURSIVE LoadFaces(_, _, _, _, _)
LoadFaces(w, attrib, mesh, f, indexOffset) ==
    IF f >= Len(mesh.num_face_vertices) THEN w
    ELSE CHOOSE r \in
        { IF fv # 3
          THEN LoadFaces(w, attrib, mesh, f + 1, Skipped(indexOffset, fv))
          ELSE CHOOSE q \in
                { LoadFaces(next, attrib, mesh, f + 1, indexOffset + fv)
                  : next \in {AddFace(w, attrib, mesh, f, indexOffset)} } : TRUE
          : fv \in {Get(mesh.num_face_vertices, f)} } : TRUE

\* "for (const auto& shape : shapes)", from shape s on
RECURSIVE LoadShapes(_, _, _, _)
LoadShapes(w, attrib, shapes, s) ==
    IF s >= Len(shapes) THEN w
    ELSE CHOOSE r \in
        { LoadShapes(next, attrib, shapes, s + 1)
          : next \in {LoadFaces(w, attrib, Get(shapes, s).mesh, 0, 0)} } : TRUE

\* the squared length of a supplied normal
LenSq(normal) == normal[2] * normal[2] + normal[3] * normal[3] + normal[4] * normal[4]

\* needsNormals with the test "lenSq <= 0": only a zero normal is missing
NeedsNormalsExactZero(vertices) ==
    \E i \in 1..Len(vertices) : LenSq(vertices[i].normal) <= 0

\* needsNormals: some vertex has "lenSq < epsilon"
NeedsNormals(vertices) ==
    \E i \in 1..Len(vertices) : LenSq(vertices[i].normal) < Epsilon

\* a tinyobj material as a Material: the fields are copied, the texture's
\* name is put after mtlBasePath
ConvertMaterial(mat, mtlBasePath) ==
    [name |-> mat.name,
     diffuseTexturePath |-> IF mat.diffuse_texname # "" THEN mtlBasePath \o mat.diffuse_texname
                            ELSE ""]

\* the Material named "default"
DefaultMaterial == [name |-> "default", diffuseTexturePath |-> ""]

\* the materials after the conversion loop and the default's addition
LoadedMaterials(objMaterials, mtlBasePath) ==
    IF objMaterials = <<>> THEN <<DefaultMaterial>>
    ELSE [n \in 1..Len(objMaterials) |-> ConvertMaterial(objMaterials[n], mtlBasePath)]

\* a load that returns true although no vertex was read
LoadReturnsTrue(vertices) == TRUE

\* "return !m_vertices.empty()"
LoadReturns(vertices) == vertices # <<>>

\* the vertices and triangles a parsed file leaves in the mesh: the shapes are
\* welded, then computeNormals() runs if needsNormals
LoadedMesh(file) ==
    CHOOSE mesh \in
        { [vertices |-> IF NeedsNormals(w.vertices)
                        THEN computeNormals(w.vertices, w.triangles)
                        ELSE w.vertices,
           triangles |-> w.triangles]
          : w \in {LoadShapes(NothingWelded, file.attrib, file.shapes, 0)} } : TRUE

\* loadFromFile(objFilename, mtlBasePath), file being what the parser makes of
\* the two
LoadFromFile(file) ==
    /\ pc = "idle"
    /\ IF ~file.ok
       THEN /\ ret' = Returned("LoadFromFile", file, "returned", FALSE)
            /\ UNCHANGED meshVars
       ELSE \E mesh \in {LoadedMesh(file)} :
            /\ m_materials' = LoadedMaterials(file.objMaterials, file.mtlBasePath)
            /\ m_triangles' = mesh.triangles
            /\ m_vertices' = mesh.vertices
            /\ ret' = Returned("LoadFromFile", file, "returned", LoadReturns(mesh.vertices))
    /\ UNCHANGED <<bvhVars, physVars, pc, ub, garbage, stack, decVars, histVars>>

\* ------------------------------------------------- the BVH input family

NoNormal == Vec(0, 0, 0)

BVHVertices ==
    << Vertex(<<0, 0, 0>>, NoNormal, 0), Vertex(<<8, 0, 0>>, NoNormal, 1),
       Vertex(<<0, 8, 0>>, NoNormal, 2), Vertex(<<24, 0, 0>>, NoNormal, 3),
       Vertex(<<24, 8, 0>>, NoNormal, 4), Vertex(<<0, 0, 24>>, NoNormal, 5) >>

BVHTriPool ==
    { Triangle(0, 1, 2, 0), Triangle(1, 3, 4, 0), Triangle(5, 5, 2, 0) }

EmptyBox == [min |-> <<0, 0, 0>>, max |-> <<0, 0, 0>>]

InitBVH ==
    /\ m_vertices = BVHVertices
    /\ m_triangles \in SeqsUpTo(BVHTriPool, MaxTris)
    /\ m_materials = <<0>>
    /\ m_bvhNodes = <<>>
    /\ m_bvhTriIndices = <<>>
    /\ m_boundingBox = EmptyBox
    /\ m_faceNormals = <<>>
    /\ m_hasPhysicsData = FALSE
    /\ pc = "idle"
    /\ ub = FALSE
    /\ garbage = Vertex(<<0, 0, 0>>, NoNormal, 0)
    /\ stack = <<>>
    /\ NoLocals

\* (the input families do not count the calls)
NextBVH ==
    \/ BuildBVH /\ UNCHANGED callVars
    \/ SubdivideNode

SpecBVH == InitBVH /\ [][NextBVH]_vars

\* ------------------------------------------ the decimation input family

GivenNormal == Vec(0, 0, NormalOne)

DecVertices ==
    << Vertex(<<64, 0, 0>>, GivenNormal, 0), Vertex(<<128, 0, 0>>, GivenNormal, 1),
       Vertex(<<0, 0, 0>>, GivenNormal, 2), Vertex(<<-80, 0, 0>>, NoNormal, 3),
       Vertex(<<0, 768, 0>>, GivenNormal, 4), Vertex(<<0, 0, 16>>, GivenNormal, 5) >>

DecTriPool == { Triangle(0, 1, 4, 0), Triangle(2, 0, 4, 1), Triangle(2, 3, 4, 0) }

\* with a triangle that names a vertex twice
DecTriPoolDegenerate == DecTriPool \cup { Triangle(2, 2, 3, 1) }

\* two triangles on the line through vertices 1, 0, 2, 3 and k copies of a third
Fan(k) ==
    << Triangle(0, 1, 4, 0), Triangle(2, 0, 4, 1) >> \o [n \in 1..k |-> Triangle(2, 3, 4, 0)]

DecTriangleLists ==
    SeqsUpTo(DecTriPool, MaxDecTris)
    \cup SeqsUpTo(DecTriPoolDegenerate, MaxDecTris - 1)
    \cup {Fan(k) : k \in 0..MaxFan}

\* target ratios, in hundredths
Ratios == {0, 90, 100, 125}

InitDec ==
    /\ m_vertices = DecVertices
    /\ m_triangles \in DecTriangleLists
    /\ m_materials = <<0, 1>>
    /\ m_bvhNodes = <<>>
    /\ m_bvhTriIndices = <<>>
    /\ m_boundingBox = EmptyBox
    /\ m_faceNormals = <<>>
    /\ m_hasPhysicsData = FALSE
    /\ pc = "idle"
    /\ ub = FALSE
    /\ garbage = Vertex(<<0, 0, 0>>, NoNormal, 0)
    /\ stack = <<>>
    /\ NoLocals

DecimateLoop == DecimateSkip \/ DecimateReinsert \/ DecimateCollapse \/ DecimateFinish

NextDec ==
    \/ \E r \in Ratios : call.n < MaxDecimateCalls /\ Decimate(r) /\ UNCHANGED callVars
    \/ DecimateSkip
    \/ DecimateReinsert
    \/ DecimateCollapse
    \/ DecimateFinish

\* decimate runs to completion once called
SpecDec == InitDec /\ [][NextDec]_vars /\ WF_vars(DecimateLoop)

\* ------------------------------------------------- the material family

MaterialPool == {10, 11, 12}
MaterialIndices == 0..(MaxMaterialIndex)

\* a constructed Mesh
InitMat ==
    /\ m_vertices = <<>>
    /\ m_triangles = <<>>
    /\ m_materials = <<>>
    /\ m_bvhNodes = <<>>
    /\ m_bvhTriIndices = <<>>
    /\ m_boundingBox = EmptyBox
    /\ m_faceNormals = <<>>
    /\ m_hasPhysicsData = FALSE
    /\ pc = "idle"
    /\ ub = FALSE
    /\ garbage = Vertex(<<0, 0, 0>>, NoNormal, 0)
    /\ stack = <<>>
    /\ NoLocals

NextMat ==
    \/ \E m \in MaterialPool : AddMaterial(m) /\ Counted("AddMaterial")
    \/ \E i \in MaterialIndices : GetMaterial(i) /\ Count
    \/ Clear /\ Counted("Clear")

SpecMat == InitMat /\ [][NextMat]_vars

\* ------------------------------------------------- the OBJ file family

\* a face as the lines of an OBJ file give it: its corners and its material
Face(corners, matId) == [corners |-> corners, matId |-> matId]

\* shape_t of the faces given: tinyobj lays the corners of all faces end to
\* end in mesh.indices
RECURSIVE Corners(_)
Corners(faces) ==
    IF faces = <<>> THEN <<>> ELSE Head(faces).corners \o Corners(Tail(faces))

Shape(faces) ==
    [mesh |-> [indices |-> Corners(faces),
               num_face_vertices |-> [n \in 1..Len(faces) |-> Len(faces[n].corners)],
               material_ids |-> [n \in 1..Len(faces) |-> faces[n].matId]]]

\* attrib.vertices: six positions; the fourth repeats the second, and the
\* fifth has the hash of the third
AttribVertices == << 0, 0, 0,  1, 0, 0,  0, 1, 1,  1, 0, 0,  0, 3, 2,  1, 1, 0 >>

\* attrib.normals: a unit normal, a zero normal, one of length 0.0005 and one
\* of length 0.002
AttribNormals == << 0, 0, NormalOne,  0, 0, 0,  5, 0, 0,  20, 0, 0 >>

\* attrib.texcoords
AttribTexcoords == << 0, 0,  TexOne, 0,  25, 75 >>

Attrib(vn) ==
    [vertices |-> AttribVertices, normals |-> vn, texcoords |-> AttribTexcoords]

\* a triangle with normals of length 1 and 0.002 and texture coordinates
TriangleFace == Face(<<index_t(0, 0, 0), index_t(1, 3, 1), index_t(2, 0, 2)>>, 0)

FacePool ==
    { TriangleFace,
      Face(<<index_t(3, -1, -1), index_t(4, 9, -1), index_t(0, -1, -1)>>, -1),
      Face(<<index_t(0, 0, 0), index_t(1, 0, 1), index_t(5, 0, 2), index_t(2, 0, 0)>>, 0),
      Face(<<index_t(5, 3, 0), index_t(1, 2, 1), index_t(2, 0, 2)>>, 0) }

FaceLists == SeqsUpTo(FacePool, MaxFaces)

\* the faces in one shape, or the first face in a shape of its own
ShapeLists ==
    { <<Shape(faces)>> : faces \in FaceLists }
    \cup { <<Shape(<<Head(faces)>>), Shape(Tail(faces))>> :
             faces \in {fs \in FaceLists : Len(fs) >= 2} }

ObjMaterials == [name |-> "paint", diffuse_texname |-> "paint.png"]

\* files the parser reads, with and without "vn" lines and materials
ReadableFiles ==
    { Parsed(TRUE, Attrib(vn), shapes, objMaterials) :
        vn \in {<<>>, AttribNormals}, shapes \in ShapeLists,
        objMaterials \in {<<>>} }
    \cup { Parsed(TRUE, Attrib(AttribNormals), shapes, <<ObjMaterials>>) :
              shapes \in {<<>>, <<Shape(<<TriangleFace>>)>>} }

\* files the parser gives up on, whatever it had read until then
UnreadableFiles ==
    { Parsed(FALSE, Attrib(<<>>), <<>>, <<>>),
      Parsed(FALSE, Attrib(AttribNormals), <<Shape(<<TriangleFace>>)>>, <<>>) }

Files == ReadableFiles \cup UnreadableFiles

NextLoad ==
    \E file \in Files : ops < MaxLoads /\ ops' = ops + 1 /\ LoadFromFile(file)

SpecLoad == InitMat /\ [][NextLoad]_vars

\* ------------------------------------------------- the mesh's lifetime

\* what a read past the end of m_vertices may yield
GarbageVertices ==
    { Vertex(<<0, 0, 0>>, NoNormal, 0), Vertex(<<-4096, 512, 7>>, GivenNormal, 9) }

LifeVertices == { DecVertices[3] }
LifeVertexLists == { DecVertices, SubSeq(DecVertices, 1, 2) }
LifeTriangles == { Triangle(0, 1, 4, 0), Triangle(2, 3, 4, 0) }
LifeTriangleLists == { Fan(MaxFan), << Triangle(0, 1, 4, 0) >> }
LifeRatios == {0, 100}

\* a constructed Mesh: no vertices, triangles, materials, BVH or physics data
Init ==
    /\ m_vertices = <<>>
    /\ m_triangles = <<>>
    /\ m_materials = <<>>
    /\ m_bvhNodes = <<>>
    /\ m_bvhTriIndices = <<>>
    /\ m_boundingBox = EmptyBox
    /\ m_faceNormals = <<>>
    /\ m_hasPhysicsData = FALSE
    /\ pc = "idle"
    /\ ub = FALSE
    /\ garbage \in GarbageVertices
    /\ stack = <<>>
    /\ NoLocals

Next ==
    \/ \E v \in LifeVertices : Len(m_vertices) < MaxVerts /\ AddVertex(v) /\ Counted("AddVertex")
    \/ \E t \in LifeTriangles : Len(m_triangles) < MaxAddTris /\ AddTriangle(t) /\ Counted("AddTriangle")
    \/ \E vs \in LifeVertexLists : SetVertices(vs) /\ Counted("SetVertices")
    \/ \E ts \in LifeTriangleLists : SetTriangles(ts) /\ Counted("SetTriangles")
    \/ Len(m_materials) < MaxMaterials /\ AddMaterial(Len(m_materials)) /\ Counted("AddMaterial")
    \/ Clear /\ Counted("Clear")
    \/ ClearCPUData /\ Counted("ClearCPUData")
    \/ ComputeNormals /\ Counted("ComputeNormals")
    \/ ComputeNormalsOutOfRange /\ Counted("ComputeNormals")
    \/ ComputePhysicsData /\ Counted("ComputePhysicsData")
    \/ ComputePhysicsDataOutOfRange /\ Counted("ComputePhysicsData")
    \/ BuildBVH /\ Counted("BuildBVH")
    \/ BuildBVHOutOfRange /\ Counted("BuildBVH")
    \/ \E r \in LifeRatios : Decimate(r) /\ Counted("Decimate")
    \/ \E r \in LifeRatios : DecimateOutOfRange(r) /\ Counted("Decimate")
    \/ SubdivideNode
    \/ DecimateSkip
    \/ DecimateReinsert
    \/ DecimateCollapse
    \/ DecimateFinish

Spec == Init /\ [][Next]_vars

\* ------------------------------------------------------------ BVH claims

NodeIds == 0..(Len(m_bvhNodes) - 1)
IsLeaf(n) == n.triCount > 0
IsInternal(n) == n.triCount = 0
Leaves == {k \in NodeIds : IsLeaf(Get(m_bvhNodes, k))}
Internals == {k \in NodeIds : IsInternal(Get(m_bvhNodes, k))}
\* the slots [leftFirst, leftFirst + triCount) of a leaf
Slots(n) == n.leftFirst..(n.leftFirst + n.triCount - 1)

\* C1: BVH partition invariant.  In every step that turns a node with
\* triCount > 0 into an internal node, the node's new leftFirst names two
\* children of the new node array whose triangle counts sum to the node's
\* count before the step, the left child covering [first, first + leftCount)
\* and the right child [first + leftCount, first + count) of the node's range
\* before the step, both non-empty.
C1_SplitPartitionsRange ==
    [][\A k \in NodeIds :
         (k < Len(m_bvhNodes') /\ IsLeaf(Get(m_bvhNodes, k))
            /\ IsInternal(Get(m_bvhNodes', k)))
         => LET before == Get(m_bvhNodes, k)
                l == Get(m_bvhNodes', Get(m_bvhNodes', k).leftFirst)
                r == Get(m_bvhNodes', Get(m_bvhNodes', k).leftFirst + 1)
            IN /\ l.triCount + r.triCount = before.triCount
               /\ l.triCount > 0 /\ r.triCount > 0
               /\ l.leftFirst = before.leftFirst
               /\ r.leftFirst = before.leftFirst + l.triCount
               /\ r.leftFirst + r.triCount = before.leftFirst + before.triCount
      ]_vars

\* a build in which a child of the root was split as well
C1_Witness ==
    /\ pc = "idle"
    /\ Len(m_bvhNodes) >= 5
    /\ \E k \in Internals : k > 0

IsPermutation(s, n) ==
    /\ Len(s) = n
    /\ \A id \in 0..(n - 1) : Cardinality({k \in 1..n : s[k] = id}) = 1

\* C2: the permutation array.  From the start of a build on N >= 1
\* triangles, after every call of subdivideNode and when the build is over,
\* m_bvhTriIndices holds each id of [0, N) exactly once, and every slot of
\* [0, N) lies in the range of exactly one leaf, each leaf's range lying
\* inside [0, N).
C2_PermutationAndLeafCover ==
    m_bvhNodes # <<>> =>
        /\ IsPermutation(m_bvhTriIndices, Len(m_triangles))
        /\ \A k \in Leaves : Slots(Get(m_bvhNodes, k)) \subseteq 0..(Len(m_triangles) - 1)
        /\ \A slot \in 0..(Len(m_triangles) - 1) :
              Cardinality({k \in Leaves : slot \in Slots(Get(m_bvhNodes, k))}) = 1

\* a finished build that reordered the ids, split twice, and holds a
\* degenerate triangle (two equal indices)
C2_Witness ==
    /\ pc = "idle"
    /\ Len(m_bvhNodes) >= 5
    /\ m_bvhTriIndices # Identity(Len(m_triangles))
    /\ \E k \in 1..Len(m_triangles) :
          m_triangles[k].indices[1] = m_triangles[k].indices[2]

\* the corner positions of all triangles of the mesh
AllCorners ==
    {Get(m_vertices, m_triangles[k].indices[j]).position :
        k \in 1..Len(m_triangles), j \in 1..3}

\* C3: BVH coverage.  For every leaf, the three corner positions of every
\* triangle of its range lie within [minBounds, maxBounds] on every axis; the
\* box of node 0 is the componentwise min / max over the corners of all
\* triangles (for a mesh whose triangle indices are all in range).
C3_LeafBoxesCoverRootIsUnion ==
    (m_bvhNodes # <<>> /\ AllInRange) =>
        /\ \A k \in Leaves :
              LET n == Get(m_bvhNodes, k)
              IN \A slot \in Slots(n), j \in 1..3, a \in 1..3 :
                   LET p == Get(m_vertices,
                               Get(m_triangles, Get(m_bvhTriIndices, slot)).indices[j]).position
                   IN n.minBounds[a] <= p[a] /\ p[a] <= n.maxBounds[a]
        /\ \A a \in 1..3 :
              /\ Get(m_bvhNodes, 0).minBounds[a] = MinOf({p[a] : p \in AllCorners})
              /\ Get(m_bvhNodes, 0).maxBounds[a] = MaxOf({p[a] : p \in AllCorners})

\* a finished build whose root is internal and has a leaf of several triangles
C3_Witness ==
    /\ pc = "idle"
    /\ m_bvhNodes # <<>>
    /\ IsInternal(Get(m_bvhNodes, 0))
    /\ \E k \in Leaves : Get(m_bvhNodes, k).triCount >= 2

\* C4: node encoding.  A node with triCount = 0 has leftFirst and
\* leftFirst + 1 both indices of the node array and both above its own index;
\* a node with triCount > 0 has [leftFirst, leftFirst + triCount) inside the
\* permutation array; no triCount is negative; every node but node 0 is
\* leftFirst or leftFirst + 1 of exactly one internal node.
C4_NodeEncoding ==
    /\ \A k \in NodeIds :
          LET n == Get(m_bvhNodes, k)
          IN /\ n.triCount >= 0
             /\ IsInternal(n) => (n.leftFirst > k /\ n.leftFirst + 1 < Len(m_bvhNodes))
             /\ IsLeaf(n) => (n.leftFirst >= 0
                               /\ n.leftFirst + n.triCount <= Len(m_bvhTriIndices))
    /\ \A k \in NodeIds \ {0} :
          Cardinality({p \in Internals :
              k \in {Get(m_bvhNodes, p).leftFirst, Get(m_bvhNodes, p).leftFirst + 1}}) = 1

\* a finished build with at least two internal nodes and three leaves
C4_Witness ==
    /\ pc = "idle"
    /\ Cardinality(Internals) >= 2
    /\ Cardinality(Leaves) >= 3

\* ------------------------------------------------------- decimate claims

\* a call of decimate that did not return at once has run to its end
Decimated ==
    /\ pc = "idle" /\ call.n > 0
    /\ call.ratio < 100 /\ call.triangles # <<>>

\* the target of the last call
CallTarget == TargetTriCount(Len(call.triangles), call.ratio)

\* C6: decimation monotonicity, as claimed.  After Decimate(r), r < 1, the
\* triangle count is at most the input count and, for an input of at least
\* max(4, floor(input * clamp(r, 0.01, 1))) triangles, at least that target;
\* inside the loop no collapse takes the valid count below the target.
C6_CountKeptAtOrAboveTarget ==
    /\ Decimated =>
          /\ Len(m_triangles) <= Len(call.triangles)
          /\ Len(call.triangles) >= CallTarget => Len(m_triangles) >= CallTarget
    /\ (pc = "dec" /\ Len(call.triangles) >= targetTriCount)
          => validTriCount >= targetTriCount

\* C7: decimation safety.  After Decimate on a mesh whose triangle indices
\* are all in range, every index of every output triangle is less than the
\* new vertex count.
C7_OutputIndicesInRange == Decimated => AllInRange

\* a decimation that collapsed an edge and left triangles over fewer vertices
C7_Witness ==
    /\ Decimated
    /\ collapses >= 1
    /\ m_triangles # <<>>
    /\ Len(m_vertices) < Len(call.vertices)

\* C8: Decimate(r) with r >= 1, or on a mesh without triangles, returns at
\* once: vertices (positions, normals, texCoords, order), triangles and
\* materials are those the call was given.
C8_RatioOneIsNoOp ==
    (pc = "idle" /\ call.n > 0 /\ (call.ratio >= 100 \/ call.triangles = <<>>)) =>
        /\ m_vertices = call.vertices
        /\ m_triangles = call.triangles
        /\ m_materials = call.materials

\* a call with ratio exactly 1 on a mesh of five or more triangles
C8_Witness ==
    /\ pc = "idle" /\ call.n > 0
    /\ call.ratio = 100
    /\ Len(call.triangles) >= 5

\* the number of union-find classes
Classes == Cardinality({v \in 0..(Len(parent) - 1) : Get(parent, v) = v})

\* C9: decimate terminates.  A started collapse loop is left after finitely
\* many iterations; it is left with validTriCount <= targetTriCount or an empty
\* queue; an iteration that re-inserts an entry never pops an entry that was
\* re-inserted since the last collapse; every collapse lowers the number of
\* union-find classes by one and no other iteration changes it.
C9_DecimateTerminates ==
    /\ (pc = "dec") ~> (pc = "idle")
    /\ [][(pc = "dec" /\ pc' = "idle")
            => (validTriCount <= targetTriCount \/ edgeQueue = <<>>)]_vars
    /\ [][(pc = "dec" /\ pc' = "dec" /\ collapses' = collapses
              /\ Len(edgeQueue') = Len(edgeQueue))
            => Head(edgeQueue) \notin reinserted]_vars
    /\ [][(pc = "dec" /\ pc' = "dec")
            => Classes' = IF collapses' = collapses + 1 THEN Classes - 1 ELSE Classes]_vars

\* a loop in which, two collapses done and more to do, an entry re-inserted
\* since the last collapse waits in the queue
C9_Witness ==
    /\ pc = "dec"
    /\ reinserted # {}
    /\ collapses >= 2
    /\ LoopContinues

\* ------------------------------------------------------- lifetime claims

\* C5: the BVH follows the triangle set, as claimed.  In every state between
\* calls in which a BVH has been built (and no access past the end of the
\* vertex array has happened), the triangle-index array is a permutation of
\* [0, triangle count) of the current triangle set.
C5_BVHFollowsTriangles ==
    (pc = "idle" /\ ~ub /\ m_bvhNodes # <<>>)
        => IsPermutation(m_bvhTriIndices, Len(m_triangles))

\* C10: out-of-range indices are rejected before use, as claimed.  No call of
\* ComputeNormals, Decimate, BuildBVH or ComputePhysicsData accesses the vertex
\* array at an index >= its size.
C10_NoAccessPastEnd == ~ub

\* ------------------------------------------------------- material claims

\* a step that is a call of the operation named
IsCall(name) == ops' = ops + 1 /\ ret'.op = name

\* C11: material lookup is bounds-checked.  GetMaterial(i) returns material i
\* exactly when HasMaterial(i), and otherwise signals out_of_range; either way
\* it leaves the mesh as it was.  AddMaterial makes HasMaterial(previous count)
\* true and changes no material already there.
C11_MaterialLookupChecked ==
    /\ [][IsCall("GetMaterial") =>
            /\ IF HasMaterial(ret'.arg)
               THEN ret'.status = "returned" /\ ret'.value = Get(m_materials, ret'.arg)
               ELSE ret'.status = "out_of_range"
            /\ UNCHANGED <<meshVars, bvhVars, physVars>>]_vars
    /\ [][IsCall("AddMaterial") =>
            \E count \in {Len(m_materials)} :
                /\ ~HasMaterial(count)
                /\ HasMaterial(count)'
                /\ Len(m_materials') = count + 1
                /\ \A i \in 0..(count - 1) :
                        Get(m_materials', i) = Get(m_materials, i)]_vars

\* a lookup that threw on the index one past the last material of a mesh
\* holding two
C11_Witness ==
    /\ ret.op = "GetMaterial"
    /\ ret.status = "out_of_range"
    /\ ret.arg = 2
    /\ Len(m_materials) = 2

\* ----------------------------------------------------------- load claims

\* the file of the load that has just returned
Loaded == ret.op = "LoadFromFile"
LoadedFile == ret.arg

\* where the corners of face f begin in mesh.indices
RECURSIVE OffsetOf(_, _)
OffsetOf(mesh, f) ==
    IF f = 0 THEN 0 ELSE OffsetOf(mesh, f - 1) + Get(mesh.num_face_vertices, f - 1)

\* the faces of a shape that are triangles
TriangleFaces(mesh) ==
    SelectSeq([n \in 1..Len(mesh.num_face_vertices) |-> n - 1],
              LAMBDA f : Get(mesh.num_face_vertices, f) = 3)

\* the corners of the triangles of the faces fs, as the vertices read for them
RECURSIVE FaceCorners(_, _, _)
FaceCorners(attrib, mesh, fs) ==
    IF fs = <<>> THEN <<>>
    ELSE [v \in 1..3 |->
            CornerVertex(attrib, Get(mesh.indices, OffsetOf(mesh, Head(fs)) + v - 1))]
         \o FaceCorners(attrib, mesh, Tail(fs))

\* the corners of all triangles of the file, in the order of reading
RECURSIVE IngestedCorners(_, _)
IngestedCorners(attrib, shapes) ==
    IF shapes = <<>> THEN <<>>
    ELSE FaceCorners(attrib, Head(shapes).mesh, TriangleFaces(Head(shapes).mesh))
         \o IngestedCorners(attrib, Tail(shapes))

CornersOf(file) == IngestedCorners(file.attrib, file.shapes)

\* C12: LoadFromFile returns false if and only if the parser fails or welding
\* produced zero vertices, which it does only for a file without a triangle;
\* when it returns true the mesh holds at least one vertex and one triangle
\* and every triangle index is less than the vertex count.
C12_LoadFailureReported ==
    Loaded =>
        /\ ret.value = FALSE <=> (~LoadedFile.ok \/ m_vertices = <<>>)
        /\ LoadedFile.ok => (m_vertices = <<>> <=> CornersOf(LoadedFile) = <<>>)
        /\ ret.value = TRUE =>
            /\ Len(m_vertices) >= 1
            /\ Len(m_triangles) >= 1
            /\ AllInRange

\* a file that was parsed and holds a face, but no triangle: the load failed
C12_Witness ==
    /\ Loaded
    /\ LoadedFile.ok
    /\ LoadedFile.shapes # <<>>
    /\ ret.value = FALSE
    /\ m_vertices = <<>>

\* the shape without its face f: the face's corners leave mesh.indices
WithoutFace(shape, f) ==
    LET mesh == shape.mesh
        from == OffsetOf(mesh, f)
        fv == Get(mesh.num_face_vertices, f)
        Drop(seq, a, n) == SubSeq(seq, 1, a) \o SubSeq(seq, a + n + 1, Len(seq))
    IN [mesh |-> [indices |-> Drop(mesh.indices, from, fv),
                  num_face_vertices |-> Drop(mesh.num_face_vertices, f, 1),
                  material_ids |-> Drop(mesh.material_ids, f, 1)]]

\* the file with face f of shape s removed
FileWithout(file, s, f) ==
    [file EXCEPT !.shapes = [@ EXCEPT ![s + 1] = WithoutFace(@, f)]]

\* the faces of the file that are not triangles, as (shape, face)
SkippedFaces(file) ==
    { <<s, f>> \in (0..(Len(file.shapes) - 1)) \X (0..MaxFaces) :
        /\ f < Len(Get(file.shapes, s).mesh.num_face_vertices)
        /\ Get(Get(file.shapes, s).mesh.num_face_vertices, f) # 3 }

\* C13: a face with a vertex count other than 3 is skipped and the load goes
\* on: the mesh has one triangle for each triangle face and three indices for
\* each, and its vertices and triangles are those the file gives with the
\* skipped face removed.
C13_NonTriangleFaceSkipped ==
    (Loaded /\ LoadedFile.ok) =>
        /\ 3 * Len(m_triangles) = Len(CornersOf(LoadedFile))
        /\ \A sf \in SkippedFaces(LoadedFile) :
            LET without == LoadedMesh(FileWithout(LoadedFile, sf[1], sf[2]))
            IN /\ m_vertices = without.vertices
               /\ m_triangles = without.triangles

\* a file whose first face is skipped and whose second is a triangle
C13_Witness ==
    /\ Loaded
    /\ LoadedFile.ok
    /\ <<0, 0>> \in SkippedFaces(LoadedFile)
    /\ Len(m_triangles) = 1
    /\ Len(m_vertices) = 3

\* the indices of the triangles, three for each, in the order of m_triangles
TriangleIndices ==
    [n \in 1..(3 * Len(m_triangles)) |->
        m_triangles[((n - 1) \div 3) + 1].indices[((n - 1) % 3) + 1]]

\* the first corner read that has the key of corner i
FirstWithKey(cs, i) ==
    CHOOSE j \in 1..i :
        /\ hashVertex(cs[j]) = hashVertex(cs[i])
        /\ \A k \in 1..(j - 1) : hashVertex(cs[k]) # hashVertex(cs[i])

\* the vertices and triangles before normals are synthesized
WeldedFrom(file) == LoadShapes(NothingWelded, file.attrib, file.shapes, 0)

\* C14: welding deduplicates by position key only.  Two corners get the same
\* vertex index if and only if their keys are equal; there are as many
\* vertices as distinct keys; the welded vertex is the first corner read with
\* its key: it has that corner's position, normal and UV after welding, and in
\* the loaded mesh too unless the normals were synthesized.
C14_WeldingByPositionKey ==
    (Loaded /\ LoadedFile.ok) =>
        LET cs == CornersOf(LoadedFile)
            ix == TriangleIndices
            welded == WeldedFrom(LoadedFile).vertices
        IN /\ Len(ix) = Len(cs)
           /\ \A i, j \in 1..Len(cs) :
                ix[i] = ix[j] <=> hashVertex(cs[i]) = hashVertex(cs[j])
           /\ Len(m_vertices) = Cardinality({hashVertex(cs[i]) : i \in 1..Len(cs)})
           /\ Len(welded) = Len(m_vertices)
           /\ \A i \in 1..Len(cs) :
                /\ Get(welded, ix[i]) = cs[FirstWithKey(cs, i)]
                /\ Get(m_vertices, ix[i]).position = cs[FirstWithKey(cs, i)].position
                /\ Get(m_vertices, ix[i]).texCoord = cs[FirstWithKey(cs, i)].texCoord
                /\ ~(\E k \in 1..Len(welded) : LenSq(welded[k].normal) < Epsilon) =>
                        Get(m_vertices, ix[i]).normal = cs[FirstWithKey(cs, i)].normal

\* two triangles over six corners and three keys: a corner that repeats a
\* position met before with another normal and UV, and one that has another
\* position with the same key
C14_Witness ==
    /\ Loaded
    /\ LoadedFile.ok
    /\ Len(m_triangles) = 2
    /\ Len(m_vertices) = 3
    /\ \E i, j \in 1..Len(CornersOf(LoadedFile)) :
        /\ i < j
        /\ CornersOf(LoadedFile)[i].position = CornersOf(LoadedFile)[j].position
        /\ CornersOf(LoadedFile)[i].normal # CornersOf(LoadedFile)[j].normal
        /\ CornersOf(LoadedFile)[i].texCoord # CornersOf(LoadedFile)[j].texCoord
    /\ \E i, j \in 1..Len(CornersOf(LoadedFile)) :
        /\ CornersOf(LoadedFile)[i].position # CornersOf(LoadedFile)[j].position
        /\ hashVertex(CornersOf(LoadedFile)[i]) = hashVertex(CornersOf(LoadedFile)[j])
    /\ ~(\E k \in 1..Len(m_vertices) : m_vertices[k].normal[1] # 0)

\* the supplied normals of the welded vertices: those of the first corners
SuppliedNormals(file) ==
    LET cs == CornersOf(file)
    IN [i \in 1..Len(cs) |-> cs[FirstWithKey(cs, i)].normal]

\* C15: normal synthesis at load is all-or-nothing.  If a welded vertex has a
\* supplied normal of squared length below 1e-6, every normal of the mesh is
\* the synthesized one; if none has, every vertex keeps its supplied normal.
C15_SynthesisAllOrNothing ==
    (Loaded /\ LoadedFile.ok) =>
        LET supplied == SuppliedNormals(LoadedFile)
            ix == TriangleIndices
        IN IF \E i \in 1..Len(supplied) : LenSq(supplied[i]) < Epsilon
           THEN \A k \in 1..Len(m_vertices) :
                    m_vertices[k].normal =
                        SynthNormal(ContributionsFrom(m_vertices, m_triangles, k - 1, 1))
           ELSE \A i \in 1..Len(supplied) : Get(m_vertices, ix[i]).normal = supplied[i]

\* one normal of length 0.0005 among normals of length 1 and 0.002: all three
\* were replaced
C15_Witness ==
    /\ Loaded
    /\ LoadedFile.ok
    /\ Len(m_vertices) = 3
    /\ \A i \in 1..Len(SuppliedNormals(LoadedFile)) :
            LenSq(SuppliedNormals(LoadedFile)[i]) > 0
    /\ \E i \in 1..Len(SuppliedNormals(LoadedFile)) :
            LenSq(SuppliedNormals(LoadedFile)[i]) < Epsilon
    /\ \A k \in 1..Len(m_vertices) :
            m_vertices[k].normal \notin Range(SuppliedNormals(LoadedFile))

\* ------------------------------------------- normals as numbers (C16)

\* std::sqrt, rounded down; the argument is below 2^31
RECURSIVE IsqrtIn(_, _, _)
IsqrtIn(n, lo, hi) ==
    IF lo >= hi THEN lo
    ELSE CHOOSE r \in
        { IF mid * mid <= n THEN IsqrtIn(n, mid, hi) ELSE IsqrtIn(n, lo, mid - 1)
          : mid \in {(lo + hi + 1) \div 2} } : TRUE
Isqrt(n) == IsqrtIn(n, 0, 46340)

\* the cosine of an angle given in ten-thousandths of a radian, in
\* ten-thousandths: the terms of its series from term k on
RECURSIVE CosFrom(_, _, _)
CosFrom(term, x2, k) ==
    IF k > 9 THEN 0
    ELSE CHOOSE r \in
        { t + CosFrom(-((t * (x2 \div ((2 * k + 1) * (2 * k + 2)))) \div NormalOne), x2, k + 1)
          : t \in {term} } : TRUE
Cos(angle) == CosFrom(NormalOne, (angle * angle) \div NormalOne, 0)

\* std::acos of a cosine in ten-thousandths, in ten-thousandths of a radian
RECURSIVE AcosIn(_, _, _)
AcosIn(c, lo, hi) ==
    IF hi - lo <= 1 THEN lo
    ELSE CHOOSE r \in
        { IF Cos(mid) > c THEN AcosIn(c, mid, hi) ELSE AcosIn(c, lo, mid)
          : mid \in {(lo + hi) \div 2} } : TRUE
Acos(c) == AcosIn(c, 0, 31416)

Dot(a, b) == a[1] * b[1] + a[2] * b[2] + a[3] * b[3]

\* "std::clamp(..., -1.0f, 1.0f)"
Clamp(c) == Max2(-NormalOne, Min2(NormalOne, c))

\* the angle between the edges a and b at a corner, 0 if an edge is shorter
\* than 0.0001
AngleBetween(a, b) ==
    IF Dot(a, a) = 0 \/ Dot(b, b) = 0 THEN 0
    ELSE Acos(Clamp((Dot(a, b) * NormalOne * 100) \div Isqrt(Dot(a, a) * Dot(b, b) * 10000)))

\* the angle of triangle (p0, p1, p2) at its corner c
AngleAt(p0, p1, p2, c) ==
    IF c = 0 THEN AngleBetween(Sub(p1, p0), Sub(p2, p0))
    ELSE IF c = 1 THEN AngleBetween(Sub(p0, p1), Sub(p2, p1))
    ELSE AngleBetween(Sub(p0, p2), Sub(p1, p2))

\* (nx, ny, nz) / faceLen
UnitFaceNormal(p0, p1, p2) ==
    LET raw == FaceNormalRaw(p0, p1, p2)
        faceLen == Isqrt(Dot(raw, raw) * 1000000)
    IN [k \in 1..3 |-> (raw[k] * NormalOne * 1000) \div faceLen]

\* what the corner adds: the unit face normal times the angle
Weighted(p0, p1, p2, c) ==
    LET unit == UnitFaceNormal(p0, p1, p2)
        angle == AngleAt(p0, p1, p2, c)
    IN [k \in 1..3 |-> (unit[k] * angle) \div NormalOne]

\* the sum of the contributions laid end to end in flat, from the g-th on
RECURSIVE SumFrom(_, _)
SumFrom(flat, g) ==
    IF 10 * g >= Len(flat) THEN <<0, 0, 0>>
    ELSE LET at == 10 * g
             w == Weighted(SubSeq(flat, at + 1, at + 3), SubSeq(flat, at + 4, at + 6),
                           SubSeq(flat, at + 7, at + 9), flat[at + 10])
             rest == SumFrom(flat, g + 1)
         IN <<w[1] + rest[1], w[2] + rest[2], w[3] + rest[3]>>

\* the normalisation loop on an accumulated normal: divided by its length if
\* that is above 0.0001, the default up normal if not (the sum and its length
\* are taken in units of 0.0002, which keeps the squares below 2^31)
Normalized(sum) ==
    LET half == [k \in 1..3 |-> sum[k] \div 2]
        len == Isqrt(Dot(half, half))
    IN IF len > 0 THEN [k \in 1..3 |-> (half[k] * NormalOne) \div len]
       ELSE <<0, NormalOne, 0>>

\* (nx, ny, nz) of a stored normal, in ten-thousandths
NormalValue(normal) ==
    IF normal[1] = 2 THEN Normalized(SumFrom(Tail(normal), 0))
    ELSE <<normal[2], normal[3], normal[4]>>

\* length 1.0 within 1e-3
UnitLength(n) ==
    /\ Dot(n, n) >= (NormalOne - 10) * (NormalOne - 10)
    /\ Dot(n, n) <= (NormalOne + 10) * (NormalOne + 10)

\* vertex i is a corner of a triangle whose face normal is 0.0001 long or more
HasFace(i) ==
    \E k \in 1..Len(m_triangles) :
        /\ i \in Range(m_triangles[k].indices)
        /\ ~FaceDegenerate(PosAt(m_triangles[k].indices[1]),
                           PosAt(m_triangles[k].indices[2]),
                           PosAt(m_triangles[k].indices[3]))

\* vertices on a unit lattice: a right triangle in the xy plane, a corner above
\* it, one more in the plane, and a vertex no triangle uses
NormVertices ==
    << Vertex(<<0, 0, 0>>, NoNormal, 0), Vertex(<<1, 0, 0>>, GivenNormal, 1),
       Vertex(<<0, 1, 0>>, NoNormal, 2), Vertex(<<0, 0, 2>>, NoNormal, 3),
       Vertex(<<2, 2, 0>>, NoNormal, 4), Vertex(<<1, 1, 1>>, GivenNormal, 5) >>

\* two windings of a triangle, a triangle in another plane, one of zero area
NormTriPool ==
    { Triangle(0, 1, 2, 0), Triangle(0, 2, 1, 0), Triangle(0, 1, 3, 0),
      Triangle(1, 4, 2, 0), Triangle(0, 4, 4, 0) }

InitNormals ==
    /\ m_vertices = NormVertices
    /\ m_triangles = <<>>
    /\ m_materials = <<0>>
    /\ m_bvhNodes = <<>>
    /\ m_bvhTriIndices = <<>>
    /\ m_boundingBox = EmptyBox
    /\ m_faceNormals = <<>>
    /\ m_hasPhysicsData = FALSE
    /\ pc = "idle"
    /\ ub = FALSE
    /\ garbage = Vertex(<<0, 0, 0>>, NoNormal, 0)
    /\ stack = <<>>
    /\ NoLocals

NextNormals ==
    \/ \E t \in NormTriPool :
        Len(m_triangles) < MaxNormTris /\ AddTriangle(t) /\ Counted("AddTriangle")
    \/ ComputeNormals /\ Counted("ComputeNormals")

SpecNormals == InitNormals /\ [][NextNormals]_vars

\* C16: after ComputeNormals every vertex normal has length 1.0 within 1e-3,
\* and a vertex that is a corner of no triangle with a face normal of length
\* 1e-4 or more has exactly the normal (0, 1, 0).
C16_NormalsUnitLength ==
    ret.op = "ComputeNormals" =>
        \A i \in 0..(Len(m_vertices) - 1) :
            /\ UnitLength(NormalValue(VertexAt(i).normal))
            /\ ~HasFace(i) => NormalValue(VertexAt(i).normal) = <<0, NormalOne, 0>>

\* normals computed for a mesh of three triangles with a vertex between two planes (its normal is
\* along none of the axes), a vertex no triangle uses and one that only a
\* triangle of zero area uses
C16_Witness ==
    /\ ret.op = "ComputeNormals"
    /\ Len(m_triangles) = 3
    /\ \E i \in 0..(Len(m_vertices) - 1) :
        /\ HasFace(i)
        /\ Cardinality({k \in 1..3 : NormalValue(VertexAt(i).normal)[k] # 0}) >= 2
    /\ \E i \in 0..(Len(m_vertices) - 1) :
        ~HasFace(i) /\ \E k \in 1..Len(m_triangles) : i \in Range(m_triangles[k].indices)

\* --------------------------------------- freeing the CPU data (C17)

\* meshes of two triangles apart from each other, each several times
FreeTriangleLists ==
    { [n \in 1..k |-> IF n % 2 = 0 THEN Triangle(0, 1, 2, 0) ELSE Triangle(1, 3, 4, 0)]
      : k \in 0..MaxTris }

\* a mesh as it is after loading
InitFree ==
    /\ m_vertices = BVHVertices
    /\ m_triangles \in FreeTriangleLists
    /\ m_materials = <<0>>
    /\ m_bvhNodes = <<>>
    /\ m_bvhTriIndices = <<>>
    /\ m_boundingBox = EmptyBox
    /\ m_faceNormals = <<>>
    /\ m_hasPhysicsData = FALSE
    /\ pc = "idle"
    /\ ub = FALSE
    /\ garbage = Vertex(<<0, 0, 0>>, NoNormal, 0)
    /\ stack = <<>>
    /\ NoLocals

\* what GameScene does with a loaded mesh: BuildBVH, ComputePhysicsData, the
\* upload, ClearCPUData; in any order here
NextFree ==
    \/ BuildBVH /\ Counted("BuildBVH")
    \/ SubdivideNode
    \/ ComputePhysicsData /\ Counted("ComputePhysicsData")
    \/ ClearCPUData /\ Counted("ClearCPUData")

SpecFree == InitFree /\ [][NextFree]_vars

\* C17: ClearCPUData discards only the vertex and triangle arrays: afterwards
\* VertexCount and TriangleCount are 0 while the BVH nodes, the permutation,
\* the bounding box, the face normals, the physics-data flag and the materials
\* are as before; BuildBVH on the emptied mesh leaves the BVH untouched.
C17_ClearCPUDataKeepsBVH ==
    /\ [][IsCall("ClearCPUData") =>
            /\ Len(m_vertices') = 0
            /\ Len(m_triangles') = 0
            /\ UNCHANGED <<m_bvhNodes, m_bvhTriIndices, m_boundingBox, m_faceNormals,
                           m_hasPhysicsData, m_materials>>]_vars
    /\ [][(IsCall("BuildBVH") /\ m_triangles = <<>>) =>
            /\ UNCHANGED <<m_bvhNodes, m_bvhTriIndices>>
            /\ pc' = "idle"]_vars

\* BuildBVH has returned on a mesh emptied by ClearCPUData that still has a
\* BVH of several nodes and its physics data
C17_Witness ==
    /\ ret.op = "BuildBVH"
    /\ pc = "idle"
    /\ m_vertices = <<>>
    /\ m_triangles = <<>>
    /\ Len(m_bvhNodes) >= 3
    /\ Len(m_bvhTriIndices) = MaxTris
    /\ m_hasPhysicsData
    /\ m_faceNormals # <<>>

\* ------------------------------------------------- the unit cube (C18)

\* the corners of the unit cube, corner x + 2y + 4z at (x, y, z)
CubeVertices ==
    << 0, 0, 0,  1, 0, 0,  0, 1, 0,  1, 1, 0,  0, 0, 1,  1, 0, 1,  0, 1, 1,  1, 1, 1 >>

\* the six sides, each by its corners in order around it
CubeSides ==
    << <<0, 1, 3, 2>>, <<4, 5, 7, 6>>, <<0, 1, 5, 4>>,
       <<2, 3, 7, 6>>, <<0, 2, 6, 4>>, <<1, 3, 7, 5>> >>

\* "f a b c": a face of three corners without vt and vn
CubeFace(a, b, c) == Face(<<index_t(a, -1, -1), index_t(b, -1, -1), index_t(c, -1, -1)>>, -1)

\* a side as two triangles, cut along one diagonal or the other
SideFaces(q, diagonal) ==
    IF diagonal = 0
    THEN <<CubeFace(q[1], q[2], q[3]), CubeFace(q[1], q[3], q[4])>>
    ELSE <<CubeFace(q[1], q[2], q[4]), CubeFace(q[2], q[3], q[4])>>

\* the cube as 12 triangles over 8 "v" lines, no "vn" lines
CubeFile(diagonals) ==
    Parsed(TRUE,
           [vertices |-> CubeVertices, normals |-> <<>>, texcoords |-> <<>>],
           << Shape(SideFaces(CubeSides[1], diagonals[1]) \o SideFaces(CubeSides[2], diagonals[2])
                    \o SideFaces(CubeSides[3], diagonals[3]) \o SideFaces(CubeSides[4], diagonals[4])
                    \o SideFaces(CubeSides[5], diagonals[5]) \o SideFaces(CubeSides[6], diagonals[6])) >>,
           <<>>)

CubeFiles == { CubeFile(diagonals) : diagonals \in [1..6 -> {0, 1}] }

\* the full pipeline on a cube: load, then BuildBVH
NextCube ==
    \/ \E file \in CubeFiles : ops = 0 /\ LoadFromFile(file) /\ Count
    \/ ops = 1 /\ BuildBVH /\ Counted("BuildBVH")
    \/ SubdivideNode

SpecCube == InitMat /\ [][NextCube]_vars

\* BuildBVH has returned for the cube
CubeBuilt == ret.op = "BuildBVH" /\ pc = "idle"

\* C18: a unit cube given as 12 triangles over 8 corner positions with no
\* normals yields exactly 8 welded vertices; BuildBVH starts from a root that
\* spans all 12 triangles, splits the root at least once and leaves every leaf
\* with at most 4 triangles.
C18_UnitCube ==
    /\ Loaded => (Len(m_vertices) = 8 /\ Len(m_triangles) = 12 /\ ret.value = TRUE)
    /\ (ret.op = "BuildBVH" /\ Len(m_bvhNodes) = 1 /\ stack = <<0>>) =>
            (m_bvhNodes[1].leftFirst = 0 /\ m_bvhNodes[1].triCount = 12)
    /\ CubeBuilt =>
        /\ IsInternal(Get(m_bvhNodes, 0))
        /\ \A n \in Leaves : Get(m_bvhNodes, n).triCount <= 4

\* the BVH of a cube, built: at least three nodes over the 12 triangles
C18_Witness ==
    /\ CubeBuilt
    /\ Len(m_vertices) = 8
    /\ Len(m_bvhNodes) >= 3
    /\ Len(m_bvhTriIndices) = 12

\* ------------------------------------------- the split decision (C19, C20)

\* the BVH family's vertices and one more on the x axis, three eighths of the
\* way along the first triangle
SAHVertices == BVHVertices \o << Vertex(<<3, 0, 0>>, NoNormal, 6) >>

\* two triangles apart from each other, two on a line (their boxes have no
\* area) and one that is a point, its centroid on a candidate plane
SAHTriPool ==
    << Triangle(1, 3, 4, 0), Triangle(1, 3, 3, 0), Triangle(6, 6, 6, 0),
       Triangle(0, 1, 2, 0), Triangle(1, 1, 6, 0) >>

Copies(t, n) == [k \in 1..n |-> t]
Reversed(list) == [k \in 1..Len(list) |-> list[Len(list) + 1 - k]]

\* so many copies of each triangle of the pool, in the pool's order
CopiesOfEach(counts) ==
    Copies(SAHTriPool[1], counts[1]) \o Copies(SAHTriPool[2], counts[2])
    \o Copies(SAHTriPool[3], counts[3]) \o Copies(SAHTriPool[4], counts[4])
    \o Copies(SAHTriPool[5], counts[5])

\* the meshes of up to MaxTris triangles of the pool, its order kept or reversed
SAHTriangleLists ==
    LET lists == { CopiesOfEach(counts) :
                     counts \in { c \in [1..5 -> 0..MaxTris] :
                                    c[1] + c[2] + c[3] + c[4] + c[5] <= MaxTris } }
    IN lists \cup { Reversed(list) : list \in lists }

InitSAH ==
    /\ m_vertices = SAHVertices
    /\ m_triangles \in SAHTriangleLists
    /\ m_materials = <<0>>
    /\ m_bvhNodes = <<>>
    /\ m_bvhTriIndices = <<>>
    /\ m_boundingBox = EmptyBox
    /\ m_faceNormals = <<>>
    /\ m_hasPhysicsData = FALSE
    /\ pc = "idle"
    /\ ub = FALSE
    /\ garbage = Vertex(<<0, 0, 0>>, NoNormal, 0)
    /\ stack = <<>>
    /\ NoLocals

NextSAH ==
    \/ BuildBVH /\ UNCHANGED callVars
    \/ SubdivideNode

SpecSAH == InitSAH /\ [][NextSAH]_vars

\* subdivideNode is about to run for the node on top of the stack
Subdividing == pc = "bvh" /\ stack # <<>>
\* that node, before and after the call
Current == Get(m_bvhNodes, Head(stack))
CurrentAfter == Get(m_bvhNodes', Head(stack))

\* the least SAH cost over the candidate planes of a node, 1e30 if it has none
MinCost(node) ==
    MinOf({Sentinel} \cup
          { evaluateSAH(m_bvhTriIndices, node, axis, CandidatePos8(node, axis, b)) :
              axis \in {a \in 1..3 : node.maxBounds[a] - node.minBounds[a] >= 1},
              b \in 1..(NUM_BINS - 1) })

\* triangleCount * surfaceArea(parentBox)
NoSplitCost(node) == node.triCount * HalfArea(node.minBounds, node.maxBounds)

\* the triangles under a node
RECURSIVE Covered(_)
Covered(n) ==
    IF IsLeaf(Get(m_bvhNodes, n)) THEN Get(m_bvhNodes, n).triCount
    ELSE Covered(Get(m_bvhNodes, n).leftFirst) + Covered(Get(m_bvhNodes, n).leftFirst + 1)

\* C19: subdivide turns a node into an internal node only if its triangle
\* count exceeds 4 and the best candidate's SAH cost is strictly less than
\* triangleCount * surfaceArea(parentBox); a node whose best cost does not
\* improve stays the leaf it was, whatever its size, and no node is added;
\* every internal node covers at least 5 triangles.
C19_SplitCondition ==
    /\ [](\A n \in Internals : Covered(n) >= 5)
    /\ [][Subdividing =>
            /\ IsInternal(CurrentAfter) =>
                    /\ Current.triCount > 4
                    /\ MinCost(Current) < NoSplitCost(Current)
            /\ (Current.triCount <= 4 \/ MinCost(Current) >= NoSplitCost(Current)) =>
                    /\ m_bvhNodes' = m_bvhNodes
                    /\ IsLeaf(CurrentAfter)]_vars

\* a leaf of more than 4 triangles whose box has no area, left as it is: its
\* triangles lie apart on a line, and the cost of cutting between them, 0, is
\* not less than the no-split cost, 0
C19_Witness ==
    /\ pc = "idle"
    /\ Len(m_bvhNodes) = 1
    /\ m_bvhNodes[1].triCount > 4
    /\ HalfArea(m_bvhNodes[1].minBounds, m_bvhNodes[1].maxBounds) = 0
    /\ MinCost(m_bvhNodes[1]) = 0

\* the triangle ids in the slots of a node
IdsOf(tidx, node) == {Get(tidx, k) : k \in node.leftFirst..(node.leftFirst + node.triCount - 1)}

\* the left count evaluateSAH saw for the candidate that won
WinningLeftCount(node) ==
    LET best == BestSplit(m_bvhTriIndices, node)
    IN Cardinality(LeftSlots(m_bvhTriIndices, node.leftFirst, node.triCount,
                             best.axis, best.pos8))

\* C20: a split never creates an empty child.  Every node subdivide appends
\* has triangleCount >= 1; when it appends none the node stays a leaf over
\* the same set of triangle ids; when it splits, the left child has as many
\* triangles as evaluateSAH counted on the left of the winning plane, neither
\* none nor all.
C20_NoEmptyChild ==
    [][Subdividing =>
        /\ \A k \in Len(m_bvhNodes)..(Len(m_bvhNodes') - 1) :
                Get(m_bvhNodes', k).triCount >= 1
        /\ Len(m_bvhNodes') = Len(m_bvhNodes) =>
                /\ CurrentAfter = Current
                /\ IdsOf(m_bvhTriIndices', Current) = IdsOf(m_bvhTriIndices, Current)
        /\ Len(m_bvhNodes') # Len(m_bvhNodes) =>
                /\ Get(m_bvhNodes', Len(m_bvhNodes)).triCount = WinningLeftCount(Current)
                /\ WinningLeftCount(Current) \in 1..(Current.triCount - 1)]_vars

\* a split along a plane that passes through a triangle's centroid: that
\* triangle went right, with the triangles beyond the plane
C20_Witness ==
    /\ Len(m_bvhNodes) >= 3
    /\ IsInternal(m_bvhNodes[1])
    /\ \E k \in 0..(Len(m_triangles) - 1), b \in 1..(NUM_BINS - 1) :
        /\ Get(m_triangles, k) = Triangle(6, 6, 6, 0)
        /\ 8 * Centroid3(k, 1) = 3 * (NUM_BINS * m_bvhNodes[1].minBounds[1]
                                       + (m_bvhNodes[1].maxBounds[1] - m_bvhNodes[1].minBounds[1]) * b)
        /\ \E s \in Slots(m_bvhNodes[3]) : Get(m_bvhTriIndices, s) = k
        /\ \A t \in 0..(Len(m_triangles) - 1) :
            (\E s \in Slots(m_bvhNodes[2]) : Get(m_bvhTriIndices, s) = t) =>
                8 * Centroid3(t, 1) < 8 * Centroid3(k, 1)

\* ------------------------------------------------- the in-place partition

\* the split that wins at the node subdivideNode is about to run for
Winner == BestSplit(m_bvhTriIndices, Current)

\* the call appends the two children
Splits == Len(m_bvhNodes') = Len(m_bvhNodes) + 2

\* how often a triangle id occurs in the given slots of a permutation array
Occurrences(tidx, slots, id) == Cardinality({k \in slots : Get(tidx, k) = id})

\* C21: after subdivide partitions a node's slice, every triangle id in the
\* left part has its centroid strictly below the winning position on the
\* winning axis and every id in the right part has it at or above (a centroid
\* on the plane goes right); the slice holds the same multiset of ids as
\* before, and the entries outside the slice are unchanged.
C21_InPlacePartition ==
    [][Subdividing =>
        /\ Len(m_bvhTriIndices') = Len(m_bvhTriIndices)
        /\ \A k \in 0..(Len(m_bvhTriIndices) - 1) :
                k \notin Slots(Current) =>
                    Get(m_bvhTriIndices', k) = Get(m_bvhTriIndices, k)
        /\ \A id \in 0..(Len(m_triangles) - 1) :
                Occurrences(m_bvhTriIndices', Slots(Current), id)
                    = Occurrences(m_bvhTriIndices, Slots(Current), id)
        /\ Splits =>
                \E best \in {Winner}, first \in {Len(m_bvhNodes)} :
                    /\ \A k \in Slots(Get(m_bvhNodes', first)) :
                           8 * Centroid3(Get(m_bvhTriIndices', k), best.axis)
                               < 3 * best.pos8
                    /\ \A k \in Slots(Get(m_bvhNodes', first + 1)) :
                           8 * Centroid3(Get(m_bvhTriIndices', k), best.axis)
                               >= 3 * best.pos8
                    /\ Slots(Get(m_bvhNodes', first))
                           \cup Slots(Get(m_bvhNodes', first + 1)) = Slots(Current)]_vars

\* a node other than the root was split, its slice a part of the array, and
\* the build moved triangle ids: the array is no longer in index order
C21_Witness ==
    /\ pc = "idle"
    /\ \E n \in Internals \ {0} :
          \E l \in {Get(m_bvhNodes, Get(m_bvhNodes, n).leftFirst)},
             r \in {Get(m_bvhNodes, Get(m_bvhNodes, n).leftFirst + 1)} :
            /\ IsLeaf(l) /\ IsLeaf(r)
            /\ Cardinality(Slots(l) \cup Slots(r)) < Len(m_bvhTriIndices)
            /\ \E k \in Slots(l), j \in Slots(r) :
                    Get(m_bvhTriIndices, k) > Get(m_bvhTriIndices, j)

\* ------------------------------------------------- the candidate planes

\* the axes of a node's box that have an extent
WideAxes(node) == {a \in 1..3 : node.maxBounds[a] - node.minBounds[a] >= 1}

\* the planes at the inner boundaries of NUM_BINS equal bins of each such axis
BinBoundaries(node) == WideAxes(node) \X (1..(NUM_BINS - 1))

\* 8 times the position of such a plane
BoundaryPos8(node, c) ==
    NUM_BINS * node.minBounds[c[1]] + (node.maxBounds[c[1]] - node.minBounds[c[1]]) * c[2]

BoundaryCost(node, c) == evaluateSAH(m_bvhTriIndices, node, c[1], BoundaryPos8(node, c))

\* axis first, then position
Before(c, d) == c[1] < d[1] \/ (c[1] = d[1] /\ c[2] < d[2])

\* the cheapest of these planes, the first of them in that order
FirstCheapest(node) ==
    CHOOSE c \in BinBoundaries(node) :
        \A d \in BinBoundaries(node) \ {c} :
            \/ BoundaryCost(node, c) < BoundaryCost(node, d)
            \/ BoundaryCost(node, c) = BoundaryCost(node, d) /\ Before(c, d)

\* how many planes the scan evaluates on an axis
Evaluated(node, axis) ==
    Cardinality({k \in 1..Len(Candidates(node)) : Candidates(node)[k][1] = axis})

\* C22 as stated: for each axis whose extent exceeds 1e-6 subdivide evaluates
\* the SAH cost at 8 candidate positions.
C22_EightPositions ==
    (Subdividing /\ Current.triCount > LeafMax) =>
        \A axis \in WideAxes(Current) : Evaluated(Current, axis) = 8

\* C22: for each axis whose extent is not below 1e-6 subdivide evaluates the
\* SAH cost at the 7 inner boundaries of 8 equal bins of the node's extent on
\* that axis, min + extent * b / 8 for b = 1..7, each once and in axis then
\* position order, and picks the candidate of globally lowest cost, the first
\* one found on ties; the split it makes is the split at that plane.
C22_SevenBinBoundaries ==
    [][(Subdividing /\ Current.triCount > LeafMax) =>
        \E cands \in {Candidates(Current)}, best \in {Winner} :
            /\ \A axis \in WideAxes(Current) : Evaluated(Current, axis) = 7
            /\ {cands[k] : k \in 1..Len(cands)} = BinBoundaries(Current)
            /\ \A k \in 1..(Len(cands) - 1) : Before(cands[k], cands[k + 1])
            /\ \A k \in 1..Len(cands) :
                   CandidatePos8(Current, cands[k][1], cands[k][2])
                       = BoundaryPos8(Current, cands[k])
            /\ IF \E c \in BinBoundaries(Current) : BoundaryCost(Current, c) < Sentinel
               THEN \E c \in {FirstCheapest(Current)} :
                      /\ best.cost = BoundaryCost(Current, c)
                      /\ best.axis = c[1]
                      /\ best.pos8 = BoundaryPos8(Current, c)
                      /\ Splits =>
                            IdsOf(m_bvhTriIndices', Get(m_bvhNodes', Len(m_bvhNodes)))
                              = {id \in IdsOf(m_bvhTriIndices, Current) :
                                    8 * Centroid3(id, c[1]) < 3 * BoundaryPos8(Current, c)}
               ELSE best.cost = Sentinel /\ ~Splits]_vars

\* the root as it was when subdivide ran for it
RootBefore ==
    BVHNode(m_bvhNodes[1].minBounds, m_bvhNodes[1].maxBounds, 0, Len(m_triangles))

\* the root was split where two axes have an extent and planes of both cost
\* the same, the least: the plane of the first axis was taken
C22_Witness ==
    /\ pc = "idle"
    /\ Len(m_bvhNodes) = 3
    /\ IsInternal(m_bvhNodes[1])
    /\ \E c \in {FirstCheapest(RootBefore)} :
          \E d \in BinBoundaries(RootBefore) :
            /\ d[1] # c[1]
            /\ BoundaryCost(RootBefore, d) = BoundaryCost(RootBefore, c)
            /\ \A k \in Slots(m_bvhNodes[2]) :
                  8 * Centroid3(Get(m_bvhTriIndices, k), c[1]) < 3 * BoundaryPos8(RootBefore, c)

\* ------------------------------------------------- the build ends

\* the build of the SAH family with its recursion carried on to the end
SpecBuild == InitSAH /\ [][NextSAH]_vars /\ WF_vars(SubdivideNode)

\* C23: BuildBVH terminates and stays within its reserved node storage.  A
\* call of subdivide appends no node or exactly two, each with a triangle
\* count of at least 1 and strictly smaller than the parent's; every build
\* that starts comes to its end; the node count never exceeds 2*N - 1 for N
\* triangles, below the 2*N reserved, so the node array never moves while
\* subdivide holds a reference into it.
C23_BuildTerminatesInStorage ==
    /\ [][Subdividing =>
            /\ Len(m_bvhNodes') \in {Len(m_bvhNodes), Len(m_bvhNodes) + 2}
            /\ Splits =>
                  \A k \in {Len(m_bvhNodes), Len(m_bvhNodes) + 1} :
                      /\ Get(m_bvhNodes', k).triCount >= 1
                      /\ Get(m_bvhNodes', k).triCount < Current.triCount]_vars
    /\ [](m_bvhNodes # <<>> =>
            /\ Len(m_bvhNodes) <= 2 * Len(m_triangles) - 1
            /\ Len(m_bvhNodes) < Reserved(Len(m_triangles)))
    /\ [](~ub /\ pc # "undefined")
    /\ (pc = "bvh") ~> (pc = "idle" /\ stack = <<>>)

\* a build that has ended after splitting the root and then a child of it
C23_Witness ==
    /\ pc = "idle"
    /\ stack = <<>>
    /\ Len(m_bvhNodes) = 5
    /\ Cardinality(Internals) = 2

\* ------------------------------------------------- the collapse family

\* triangles whose three corners are one vertex
PointTriangles ==
    [n \in 1..MaxPointTris |->
        LET v == <<5, 3, 5, 1>>[(n % 4) + 1] IN Triangle(v, v, v, n % 2)]

\* the decimation family's meshes, meshes of point triangles followed by at
\* most one triangle with an area, and fans behind a triangle that names a
\* vertex twice and shares no edge with them
CollapseTriangleLists ==
    DecTriangleLists
    \cup { SubSeq(PointTriangles, 1, k) \o rest :
             k \in 1..MaxPointTris, rest \in SeqsUpTo(DecTriPool, 1) }
    \cup { << Triangle(5, 5, 3, 1) >> \o Fan(k) : k \in 0..MaxFan }

InitCollapse ==
    /\ m_vertices = DecVertices
    /\ m_triangles \in CollapseTriangleLists
    /\ m_materials = <<0, 1>>
    /\ m_bvhNodes = <<>>
    /\ m_bvhTriIndices = <<>>
    /\ m_boundingBox = EmptyBox
    /\ m_faceNormals = <<>>
    /\ m_hasPhysicsData = FALSE
    /\ pc = "idle"
    /\ ub = FALSE
    /\ garbage = Vertex(<<0, 0, 0>>, NoNormal, 0)
    /\ stack = <<>>
    /\ NoLocals

SpecCollapse == InitCollapse /\ [][NextDec]_vars

\* the collapse loop is running
InLoop == pc = "dec"

Find(v) == findRoot(parent, v)

\* the triangles still flagged valid
ValidTriangles == {ti \in 0..(Len(m_triangles) - 1) : Get(triangleValid, ti)}

\* the pairs of distinct roots joined by an edge of a still-valid triangle
LiveEdges ==
    { {Find(EdgeOf(Get(m_triangles, ti), e)[1]), Find(EdgeOf(Get(m_triangles, ti), e)[2])} :
        ti \in ValidTriangles, e \in 0..2 }
    \ { {v} : v \in 0..(Len(parent) - 1) }

\* the pairs of roots the queue's entries resolve to
QueuedEdges == { {Find(edgeQueue[n][2]), Find(edgeQueue[n][3])} : n \in 1..Len(edgeQueue) }

\* C24: the collapse loop finishes above the target only if no collapsible
\* edge remains.  At every iteration each edge between distinct roots of a
\* still-valid triangle is represented by a queue entry whose endpoints
\* resolve through find() to that edge; so when the loop is left with
\* validTriCount > targetTriCount, the queue empty, no still-valid triangle
\* has two corners in different union-find classes.
C24_AboveTargetOnlyWithoutEdges ==
    InLoop =>
        /\ LiveEdges \subseteq QueuedEdges
        /\ (validTriCount > targetTriCount /\ edgeQueue = <<>>) =>
              \A ti \in ValidTriangles :
                \A i, j \in 1..3 :
                    Find(Get(m_triangles, ti).indices[i])
                        = Find(Get(m_triangles, ti).indices[j])

\* the loop is left above the target, the queue empty, after a collapse:
\* what is left are triangles of one vertex each
C24_Witness ==
    /\ InLoop
    /\ validTriCount > targetTriCount
    /\ edgeQueue = <<>>
    /\ collapses >= 1

\* ------------------------------------------------- one collapse

\* the step collapses the popped edge
Collapsing == InLoop /\ collapses' = collapses + 1

\* the endpoints stored in the popped entry and the roots they resolve to
TopA == Head(edgeQueue)[2]
TopB == Head(edgeQueue)[3]
RootA == Find(TopA)
RootB == Find(TopB)

\* C25 as stated: after collapsing a popped entry (cost, vertexA, vertexB),
\* find(vertexA) and find(vertexB) both return the root vertexA had before
\* the collapse, and that root holds the midpoint of the two roots' positions.
C25_SecondIntoFirst ==
    [][Collapsing =>
        \E ra \in {RootA}, rb \in {RootB}, a \in {TopA}, b \in {TopB} :
            /\ findRoot(parent', a) = ra
            /\ findRoot(parent', b) = ra
            /\ Get(positions', ra) = Midpoint(Get(positions, ra), Get(positions, rb))]_vars

\* C25: a collapse unions the larger of the two resolved roots into the
\* smaller.  After collapsing a popped entry (cost, vertexA, vertexB),
\* find(vertexA) and find(vertexB) both return the smaller of the roots the
\* two had before, whichever of them was stored first; that surviving root
\* holds the midpoint of the two roots' positions, and the other root's
\* position and every other vertex's are unchanged.
C25_LargerRootIntoSmaller ==
    [][Collapsing =>
        \E ra \in {RootA}, rb \in {RootB}, a \in {TopA}, b \in {TopB} :
          \E low \in {Min2(ra, rb)}, high \in {Max2(ra, rb)} :
            /\ ra # rb
            /\ findRoot(parent', a) = low
            /\ findRoot(parent', b) = low
            /\ Get(parent', high) = low
            /\ Get(positions', low) = Midpoint(Get(positions, ra), Get(positions, rb))
            /\ \A v \in 0..(Len(positions) - 1) :
                  v # low => Get(positions', v) = Get(positions, v)]_vars

\* a collapse has merged a root stored first in its entry into a smaller
\* root stored second: the class of vertex 2 was merged into that of vertex 0
\* by the entry of the edge from 2 to 0
C25_Witness ==
    /\ InLoop
    /\ collapses >= 1
    /\ Get(parent, 2) = 0
    /\ Get(positions, 0) # DecVertices[1].position
    /\ \E k \in 1..Len(call.triangles) : EdgeOf(call.triangles[k], 0) = <<2, 0>>
    /\ \A k \in 1..Len(call.triangles), e \in 0..2 : EdgeOf(call.triangles[k], e) # <<0, 2>>

\* ------------------------------------------------- lazy invalidation

\* an iteration of the loop is about to run
Iterating == InLoop /\ LoopContinues

\* the cost between the resolved roots of the popped entry, as it is now
TopCostNow == calcEdgeCost(positions, RootA, RootB)

\* no union: every vertex resolves to the root it had
SameRoots == \A v \in 0..(Len(parent) - 1) : findRoot(parent', v) = Find(v)

\* nothing but the queue and the shape of the union-find trees changes
OnlyQueueChanges ==
    /\ SameRoots
    /\ UNCHANGED <<positions, normals, triangleValid, validTriCount, vertexTriangles,
                   targetTriCount, meshVars, pc>>

\* the queue after the step is the queue without its top, with entry added
PushedBack(entry) ==
    \E n \in 1..Len(edgeQueue') :
        /\ edgeQueue'[n] = entry
        /\ SubSeq(edgeQueue', 1, n - 1) \o SubSeq(edgeQueue', n + 1, Len(edgeQueue'))
              = Tail(edgeQueue)

\* C26: lazy invalidation.  When the cost recomputed between the resolved
\* roots of a popped entry exceeds 2.25 times the entry's stored cost, the
\* entry is re-inserted with the refreshed cost and the iteration changes
\* nothing else (no union, no position or normal change, no triangle
\* flagged, validTriCount unchanged); an entry whose endpoints already share
\* a root is discarded with no other effect; an entry of distinct roots whose
\* cost did not grow so is collapsed.
C26_LazyInvalidation ==
    [][Iterating =>
        \E ra \in {RootA}, rb \in {RootB}, cost \in {Head(edgeQueue)[1]},
           now \in {TopCostNow} :
            /\ ra = rb => (edgeQueue' = Tail(edgeQueue) /\ OnlyQueueChanges)
            /\ (ra # rb /\ 4 * now > 9 * cost) =>
                    /\ PushedBack(<<now, Min2(ra, rb), Max2(ra, rb)>>)
                    /\ OnlyQueueChanges
            /\ (ra # rb /\ 4 * now <= 9 * cost) => Collapsing]_vars

\* after a collapse an entry was popped whose cost had more than doubled, and
\* it waits in the queue with the cost it has now
C26_Witness ==
    /\ Iterating
    /\ collapses >= 1
    /\ \E e \in reinserted :
          /\ \E n \in 1..Len(edgeQueue) : edgeQueue[n] = e
          /\ e[1] = calcEdgeCost(positions, e[2], e[3])
          /\ Find(e[2]) # Find(e[3])

\* ------------------------------------------------- flags, not removal

\* the triangles whose flag the step clears
Cleared == {ti \in ValidTriangles : ~Get(triangleValid', ti)}

\* C27: triangles are flagged, not removed, during the collapse loop.  The
\* triangle array and the flag array keep the length of the input until
\* compaction; validTriCount always equals the number of triangles whose
\* flag is set; an iteration lowers the counter by exactly the number of
\* flags it clears, one per triangle even when the triangle is in the lists
\* of both merged roots; a cleared flag is never set again.
C27_FlaggedNotRemoved ==
    /\ [](InLoop =>
            /\ Len(m_triangles) = Len(call.triangles)
            /\ Len(triangleValid) = Len(call.triangles)
            /\ validTriCount = Cardinality(ValidTriangles))
    /\ [][(InLoop /\ pc' = "dec") =>
            /\ \A ti \in 0..(Len(m_triangles) - 1) :
                  ~Get(triangleValid, ti) => ~Get(triangleValid', ti)
            /\ validTriCount' = validTriCount - Cardinality(Cleared)
            /\ \A ti \in Cleared : Degenerate(Get(m_triangles', ti))
            /\ ~Collapsing => Cleared = {}]_vars

\* a collapse has flagged a triangle that held both merged vertices, so was
\* listed for both, and the counter fell by one for it
C27_Witness ==
    /\ InLoop
    /\ collapses = 1
    /\ \E ti \in 0..(Len(m_triangles) - 1) :
          /\ ~Get(triangleValid, ti)
          /\ \E v \in 0..(Len(parent) - 1) :
                /\ Get(parent, v) # v
                /\ v \in Range(call.triangles[ti + 1].indices)
                /\ Get(parent, v) \in Range(call.triangles[ti + 1].indices)
          /\ validTriCount = Len(call.triangles) - 1

\* ------------------------------------------------- compaction

\* the step that leaves the loop and rebuilds the mesh
Compacting == InLoop /\ pc' = "idle"

\* the roots of the three corners of triangle ti
RootsOf(ti) ==
    [i \in 1..3 |-> Find(Get(m_triangles, ti).indices[i])]

\* the still-valid triangles whose corners resolve to three roots, in order
Surviving ==
    SelectSeq(Identity(Len(m_triangles)),
              LAMBDA ti : /\ Get(triangleValid, ti)
                          /\ Cardinality(Range(RootsOf(ti))) = 3)

\* the roots used by a still-valid triangle
UsedRoots == UNION { Range(RootsOf(ti)) : ti \in ValidTriangles }

\* C28: compaction output.  Every triangle in Decimate's output has three
\* pairwise distinct vertex indices, all in range; the output triangles are
\* the still-valid triangles with three distinct roots, in their input
\* relative order and with their material index; two output corners share a
\* new vertex index if and only if their original indices resolve to the
\* same root; the new vertex array holds one vertex per root used by a
\* still-valid triangle, with that root's position and texCoord.
C28_CompactionOutput ==
    [][Compacting =>
        \E kept \in {Surviving} :
            /\ Len(m_triangles') = Len(kept)
            /\ \A n \in 1..Len(kept) :
                  /\ Cardinality(Range(m_triangles'[n].indices)) = 3
                  /\ \A i \in 1..3 : m_triangles'[n].indices[i] < Len(m_vertices')
                  /\ m_triangles'[n].materialIndex
                        = Get(m_triangles, kept[n]).materialIndex
                  /\ m_triangles'[n].materialIndex
                        = call.triangles[kept[n] + 1].materialIndex
                  /\ \A i \in 1..3 :
                        /\ Get(m_vertices', m_triangles'[n].indices[i]).position
                              = Get(positions, RootsOf(kept[n])[i])
                        /\ RootsOf(kept[n])[i]
                              = Find(call.triangles[kept[n] + 1].indices[i])
            /\ \A n, m \in 1..Len(kept) : \A i, j \in 1..3 :
                  (m_triangles'[n].indices[i] = m_triangles'[m].indices[j])
                      <=> (RootsOf(kept[n])[i] = RootsOf(kept[m])[j])
            /\ Len(m_vertices') = Cardinality(UsedRoots)
            /\ { <<m_vertices'[k].position, m_vertices'[k].texCoord>> :
                    k \in 1..Len(m_vertices') }
                 = { <<Get(positions, r), Get(m_vertices, r).texCoord>> :
                       r \in UsedRoots }]_vars

\* a decimation that collapsed an edge and kept triangles, and whose output
\* holds a vertex no output triangle uses: the root of a triangle that was
\* still valid but named a vertex twice, dropped by the last test
C28_Witness ==
    /\ Decimated
    /\ collapses >= 1
    /\ m_triangles # <<>>
    /\ \E k \in 0..(Len(m_vertices) - 1) :
          \A n \in 1..Len(m_triangles) : k \notin Range(m_triangles[n].indices)

\* ------------------------------------------------- two runs, other normals

\* the normals a caller may give the vertices: none, all along x, or along x
\* and along -z by turns
NormalChoices ==
    { [i \in 1..Len(DecVertices) |-> NoNormal],
      [i \in 1..Len(DecVertices) |-> Vec(NormalOne, 0, 0)],
      [i \in 1..Len(DecVertices) |->
          IF i % 2 = 0 THEN Vec(NormalOne, 0, 0) ELSE Vec(0, 0, -NormalOne)] }

\* the vertices with their normals replaced
WithNormals(vertices, vn) ==
    [i \in 1..Len(vertices) |-> [vertices[i] EXCEPT !.normal = vn[i]]]

\* the caller keeps the first run's result and gives the mesh the vertices it
\* had before that run, with other normals
GiveOtherNormals ==
    /\ call.n = 1 /\ ops = 0
    /\ \E vn \in NormalChoices : SetVertices(WithNormals(call.vertices, vn))
    /\ ops' = 1
    /\ ret' = Returned("Decimate", call, "returned",
                       [vertices |-> m_vertices, triangles |-> m_triangles])

\* ... and the triangles it had
GiveTrianglesAgain ==
    /\ ops = 1
    /\ SetTriangles(call.triangles)
    /\ ops' = 2
    /\ ret' = ret

\* ... and decimates with the same ratio
DecimateAgain ==
    /\ ops = 2 /\ call.n = 1
    /\ Decimate(call.ratio)
    /\ UNCHANGED callVars

NextTwin ==
    \/ \E r \in Ratios : call.n = 0 /\ Decimate(r) /\ UNCHANGED callVars
    \/ DecimateSkip
    \/ DecimateReinsert
    \/ DecimateCollapse
    \/ DecimateFinish
    \/ GiveOtherNormals
    \/ GiveTrianglesAgain
    \/ DecimateAgain

SpecTwin == InitCollapse /\ [][NextTwin]_vars

\* the vertices without their normals
Bare(vertices) ==
    [i \in 1..Len(vertices) |->
        [position |-> vertices[i].position, texCoord |-> vertices[i].texCoord]]

\* both runs are done: ret.arg is what the first was given and ret.value what
\* it left, call what the second was given; they differ in the normals only
BothDone ==
    /\ pc = "idle" /\ call.n = 2
    /\ call.ratio = ret.arg.ratio
    /\ call.triangles = ret.arg.triangles
    /\ Bare(call.vertices) = Bare(ret.arg.vertices)

\* the two runs left the same mesh
SameOutput ==
    /\ m_triangles = ret.value.triangles
    /\ m_vertices = ret.value.vertices

\* C29 as stated: two runs of Decimate with the same ratio on meshes that
\* differ only in their input vertex normals produce identical output vertex
\* positions, triangles and vertex normals.
C29_SameOutputForAnyRatio == BothDone => SameOutput

\* C29: Decimate's final normals come only from re-running normal synthesis
\* on the reduced mesh.  Two runs of Decimate with the same ratio below 1 on
\* meshes that have triangles and differ only in their input vertex normals
\* produce identical output vertex positions, texCoords, triangles and
\* vertex normals; with a ratio of 1 or more, or without triangles, each run
\* leaves the vertices it was given, normals included.
C29_SameOutputBelowRatioOne ==
    BothDone =>
        IF call.ratio < 100 /\ call.triangles # <<>>
        THEN SameOutput
        ELSE m_vertices = call.vertices /\ ret.value.vertices = ret.arg.vertices

\* two runs that were given different normals and collapsed edges left the
\* same mesh, in which a vertex has a normal that neither run was given
C29_Witness ==
    /\ BothDone
    /\ call.ratio < 100
    /\ call.vertices # ret.arg.vertices
    /\ collapses >= 2
    /\ m_triangles # <<>>
    /\ \E k \in 1..Len(m_vertices) :
          m_vertices[k].normal \notin
              {call.vertices[i].normal : i \in 1..Len(call.vertices)}
              \cup {ret.arg.vertices[i].normal : i \in 1..Len(ret.arg.vertices)}

\* ----------------------------------------------------------- the union-find

UnionFindVertices == 0..(Len(parent) - 1)

\* the vertices that find() resolves to the same root as v
ClassOf(v) == {u \in UnionFindVertices : Find(u) = Find(v)}

\* an iteration of the loop that is followed by another look at the loop test
Looping == InLoop /\ pc' = "dec"

\* C30: the union-find stays acyclic with the smallest member as root.  At
\* every point of Decimate parent[v] <= v for every vertex v, and the root
\* find() returns for v is the smallest vertex of v's class; path compression
\* from any vertex changes no value find() returns; and an iteration of the
\* loop changes what find() returns only for the class of the larger of the
\* two roots it collapses, which from then on resolves to the smaller root.
C30_SmallestMemberIsRoot ==
    /\ [](\A v \in UnionFindVertices :
            /\ Get(parent, v) <= v
            /\ Find(v) \in ClassOf(v)
            /\ \A u \in ClassOf(v) : Find(v) <= u
            /\ \A w \in UnionFindVertices : findRoot(Compress(parent, w), v) = Find(v))
    /\ [][Looping =>
            \E high \in {Max2(RootA, RootB)}, low \in {Min2(RootA, RootB)} :
               \A v \in UnionFindVertices :
                  findRoot(parent', v) =
                      IF Collapsing /\ Find(v) = high THEN low ELSE Find(v)]_vars

\* in the loop after two collapses a vertex hangs two links below its root,
\* so that find() on it has a path to compress
C30_Witness ==
    /\ InLoop
    /\ collapses >= 2
    /\ \E v \in UnionFindVertices :
          /\ Get(parent, v) # v
          /\ Get(parent, Get(parent, v)) # Get(parent, v)

====
